---- MODULE Spec2Model ----
(***************************************************************************)
(* A model of the T-SQL analysis services: the call-graph builder, the     *)
(* callers finder, the list caps of the scorers and the standardization    *)
(* spec assembler.  Every subsystem has its own variables and its own      *)
(* specification; the variables of the other subsystems stay idle.         *)
(***************************************************************************)
EXTENDS Integers, Sequences, FiniteSets, TLC

(***************************************************************************)
(* Bounds of the model.                                                    *)
(***************************************************************************)
MaxObjects == 2
MaxCalls == 2
MaxCap == 2
MaxRuns == 2
MaxItems == 2

MaxSqlLen == 5

MaxTokenRuns == 3

MaxStatements == 4

MaxComplexity == 13
MaxDependencies == 2

(***************************************************************************)
(* Generic helpers.                                                        *)
(***************************************************************************)
Min(a, b) == IF a <= b THEN a ELSE b

Max(a, b) == IF a >= b THEN a ELSE b

Range(s) == {s[i] : i \in 1..Len(s)}

\* A slice that keeps the whole list: the caps of C3 must reject it.
Take_whole(s, n) == s

Take(s, n) == SubSeq(s, 1, Min(Len(s), Max(0, n)))

\* Python's sorted()/list.sort(): a stable sort by a strict order on keys.
StableSort(s, Less(_, _)) ==
  LET pos(i) == 1 + Cardinality({j \in 1..Len(s) :
                       Less(s[j], s[i]) \/ (~Less(s[i], s[j]) /\ j < i)})
  IN  [k \in 1..Len(s) |-> s[CHOOSE i \in 1..Len(s) : pos(i) = k]]

\* Python's comparison of two strings, on their sequences of character codes.
LexLess(a, b) ==
  \E k \in 0..Min(Len(a), Len(b)) :
     /\ \A i \in 1..k : a[i] = b[i]
     /\ \/ k = Len(a) /\ k < Len(b)
        \/ k < Len(a) /\ k < Len(b) /\ a[k + 1] < b[k + 1]

(***************************************************************************)
(* Identifiers.  A raw name is a sequence of parts, one per dot-separated  *)
(* component; a part is its text and the way it is quoted in the source.   *)
(***************************************************************************)
Plain(s) == [q |-> "none", s |-> s]

Bracket(s) == [q |-> "bracket", s |-> s]

\* str.lower() on the identifier texts of the model.
Lower(s) ==
  CASE s = "DBO" -> "dbo"
    [] s = "F" -> "f"
    [] s = "ALT" -> "alt"
    [] OTHER -> s

\* The character codes of an identifier text.
Chars(s) ==
  CASE s = "DBO" -> <<68, 66, 79>>
    [] s = "F" -> <<70>>
    [] s = "ALT" -> <<65, 76, 84>>
    [] s = "alt" -> <<97, 108, 116>>
    [] s = "dbo" -> <<100, 98, 111>>
    [] s = "f" -> <<102>>
    [] OTHER -> <<115, 112>>

\* The character codes of ".".join(parts).
RECURSIVE Joined(_)
Joined(id) ==
  IF Len(id) = 0 THEN <<>>
  ELSE IF Len(id) = 1 THEN Chars(id[1])
  ELSE Chars(id[1]) \o <<46>> \o Joined(Tail(id))

IdLess(a, b) == LexLess(Joined(a), Joined(b))

\* _clean_identifier: the brackets or double quotes around a part are removed;
\* what is left is the text of the part.
clean_identifier(part) == part.s

\* _normalize_full_name without the lowering of line 368: letter case always
\* counts.
normalize_full_name_keep_case(name, case_insensitive) ==
  [i \in 1..Len(name) |-> clean_identifier(name[i])]

\* _normalize_full_name: the cleaned (and, if asked, lowered) parts; the model
\* keeps the parts of the dot-joined string as a sequence.
normalize_full_name(name, case_insensitive) ==
  [i \in 1..Len(name) |->
     IF case_insensitive THEN Lower(clean_identifier(name[i]))
     ELSE clean_identifier(name[i])]

NoSchema == "<None>"

\* _split_identifier on an already normalized id: (schema, base name).
split_identifier(id) ==
  IF Len(id) = 0 THEN [schema |-> NoSchema, base |-> ""]
  ELSE IF Len(id) >= 2 THEN [schema |-> id[Len(id) - 1], base |-> id[Len(id)]]
  ELSE [schema |-> NoSchema, base |-> id[Len(id)]]

(***************************************************************************)
(* Call graph: src/app/services/tsql_call_graph.py                         *)
(***************************************************************************)
VARIABLES
  cgPc,            \* "index" | "scan" | "done": the position in build_call_graph
  cgOptions,       \* the Options of the call
  cgNetworkx,      \* whether find_spec("networkx") found the package (line 342)
  cgObjects,       \* the objects of the corpus read so far: [name, type]
  node_entries,    \* list of nodes [id, name, type]
  node_by_id,      \* dict id -> node
  base_name_index, \* dict base name -> list of ids
  edge_stats,      \* dict (from, to, kind) -> [count, signals]
  ambiguous_calls, \* set of (caller_name, base_name)
  cgErrors,        \* the errors list
  cgI,             \* index of the object being scanned
  cgSub,           \* "exec" | "func": which pattern is being iterated
  cgScanned,       \* number of pattern matches consumed so far
  cgAmbiguous,     \* per (caller_name, base_name): calls found ambiguous so far
  cgHits,          \* per (from, to, kind): resolved call occurrences seen
  cgResult         \* the returned dict, once done

cgVars == <<cgPc, cgOptions, cgNetworkx, cgObjects, node_entries, node_by_id,
            base_name_index, edge_stats, ambiguous_calls, cgErrors, cgI, cgSub,
            cgScanned, cgAmbiguous, cgHits, cgResult>>

SIGNAL_LIMIT == 10

\* The object names of the modelled corpora.
NamePool ==
  { <<Plain("dbo"), Plain("f")>>,
    <<Bracket("DBO"), Bracket("F")>>,
    <<Plain("alt"), Plain("f")>>,
    <<Plain("f")>> }

\* The qualified names the call patterns can capture in the cleaned SQL.
CallNamePool ==
  { <<Plain("dbo"), Plain("f")>>,
    <<Plain("f")>>,
    <<Plain("sp_executesql")>> }

ObjectTypes == {"procedure", "function"}

\* Options, lines 25-33; the request model admits max_nodes, max_edges >= 1.
DefaultOptions ==
  [case_insensitive |-> TRUE, schema_sensitive |-> FALSE,
   include_functions |-> TRUE, include_procedures |-> TRUE,
   ignore_dynamic_exec |-> TRUE, max_nodes |-> MaxCap, max_edges |-> MaxCap]

\* The options of the modelled calls: the defaults with every name-matching
\* mode, with every pair of caps, and with each filter switched off in turn.
OptionsPool ==
  { [DefaultOptions EXCEPT !.case_insensitive = ci, !.schema_sensitive = ss] :
      ci \in BOOLEAN, ss \in BOOLEAN }
  \cup { [DefaultOptions EXCEPT !.max_nodes = mn, !.max_edges = me] :
           mn \in 1..MaxCap, me \in 1..MaxCap }
  \cup { [DefaultOptions EXCEPT !.include_functions = FALSE],
         [DefaultOptions EXCEPT !.include_procedures = FALSE],
         [DefaultOptions EXCEPT !.ignore_dynamic_exec = FALSE] }

NoTarget == <<>>

NoResult == [done |-> FALSE]

\* _include_object
include_object(obj, options) ==
  IF obj.type = "procedure" THEN options.include_procedures
  ELSE IF obj.type = "function" THEN options.include_functions
  ELSE options.include_procedures \/ options.include_functions

\* _index_base_name: setdefault(base, []).append(full_id)
index_base_name(full_id, index) ==
  LET base == split_identifier(full_id).base
  IN  IF base \in DOMAIN index
      THEN [index EXCEPT ![base] = Append(@, full_id)]
      ELSE [b \in DOMAIN index \cup {base} |->
              IF b = base THEN <<full_id>> ELSE index[b]]

\* _is_dynamic_exec: the normalized name ends with sp_executesql
is_dynamic_exec(name, options) ==
  LET normalized == normalize_full_name(name, options.case_insensitive)
  IN  Len(normalized) > 0 /\ normalized[Len(normalized)] = "sp_executesql"

FilterSeq(s, Test(_)) ==
  LET idx == {i \in 1..Len(s) : Test(s[i])}
      nth(k) == CHOOSE i \in idx : Cardinality({j \in idx : j < i}) = k - 1
  IN  [k \in 1..Cardinality(idx) |-> s[nth(k)]]

\* _resolve_target: the resolved node id (NoTarget for None), whether the call
\* had several candidates, and whether an AMBIGUOUS_TARGET error is appended.
is_target_type(target_id, nodes, object_type) ==
  target_id \in DOMAIN nodes /\ nodes[target_id].type = object_type

Candidates(base_name, index, nodes, object_type) ==
  IF base_name \in DOMAIN index
  THEN FilterSeq(index[base_name], LAMBDA item : is_target_type(item, nodes, object_type))
  ELSE <<>>

\* _resolve_target without the ambiguous_calls lookup of line 255: every
\* ambiguous call reports its error. C1 must reject it.
resolve_target_every_call(name, index, nodes, options, object_type, ambiguous, caller_name) ==
  LET normalized == normalize_full_name(name, options.case_insensitive)
      split == split_identifier(normalized)
      exact == normalized \in DOMAIN nodes /\ is_target_type(normalized, nodes, object_type)
      candidates == Candidates(split.base, index, nodes, object_type)
      key == <<caller_name, split.base>>
      none == [target |-> NoTarget, error |-> FALSE, ambiguous |-> FALSE, key |-> key]
  IN  IF options.schema_sensitive
      THEN IF split.schema = NoSchema THEN none
           ELSE IF exact THEN [none EXCEPT !.target = normalized]
           ELSE none
      ELSE IF split.schema # NoSchema /\ exact THEN [none EXCEPT !.target = normalized]
      ELSE IF Len(candidates) = 0 THEN none
      ELSE IF Len(candidates) = 1 THEN [none EXCEPT !.target = candidates[1]]
      ELSE [none EXCEPT !.error = TRUE, !.ambiguous = TRUE]

resolve_target(name, index, nodes, options, object_type, ambiguous, caller_name) ==
  LET normalized == normalize_full_name(name, options.case_insensitive)
      split == split_identifier(normalized)
      exact == normalized \in DOMAIN nodes /\ is_target_type(normalized, nodes, object_type)
      candidates == Candidates(split.base, index, nodes, object_type)
      key == <<caller_name, split.base>>
      none == [target |-> NoTarget, error |-> FALSE, ambiguous |-> FALSE, key |-> key]
  IN  IF options.schema_sensitive
      THEN IF split.schema = NoSchema THEN none
           ELSE IF exact THEN [none EXCEPT !.target = normalized]
           ELSE none
      ELSE IF split.schema # NoSchema /\ exact THEN [none EXCEPT !.target = normalized]
      ELSE IF Len(candidates) = 0 THEN none
      ELSE IF Len(candidates) = 1 THEN [none EXCEPT !.target = candidates[1]]
      ELSE [none EXCEPT !.error = key \notin ambiguous, !.ambiguous = TRUE]

\* _record_edge without the increment of line 289: a repeated call leaves
\* the count at 1. C4 must reject it.
record_edge_first_only(stats, from_id, to_id, kind, signal) ==
  LET key == <<from_id, to_id, kind>>
  IN  IF key \notin DOMAIN stats
      THEN [k \in DOMAIN stats \cup {key} |->
              IF k = key THEN [count |-> 1, signals |-> <<signal>>] ELSE stats[k]]
      ELSE stats

\* _record_edge
record_edge(stats, from_id, to_id, kind, signal) ==
  LET key == <<from_id, to_id, kind>>
  IN  IF key \notin DOMAIN stats
      THEN [k \in DOMAIN stats \cup {key} |->
              IF k = key THEN [count |-> 1, signals |-> <<signal>>] ELSE stats[k]]
      ELSE [stats EXCEPT ![key] =
              [count |-> @.count + 1,
               signals |-> IF signal \notin Range(@.signals) /\ Len(@.signals) < SIGNAL_LIMIT
                           THEN Append(@.signals, signal) ELSE @.signals]]

EmptyMap == [x \in {} |-> 0]

AmbiguousError(caller_name, base_name) ==
  [id |-> "AMBIGUOUS_TARGET", object |-> caller_name, base |-> base_name]

LimitError(id) == [id |-> id, object |-> <<>>, base |-> ""]

\* ---- build_call_graph, lines 45-64: one object of the corpus is read and,
\* if it passes the filter, gets its node.
cgIndexObject(name, type) ==
  /\ cgPc = "index"
  /\ Len(cgObjects) < MaxObjects
  /\ LET obj == [name |-> name, type |-> type]
         normalized_id == normalize_full_name(name, cgOptions.case_insensitive)
         node == [id |-> normalized_id, name |-> name, type |-> type]
     IN  /\ cgObjects' = Append(cgObjects, obj)
         /\ IF include_object(obj, cgOptions) /\ Len(normalized_id) > 0
               /\ normalized_id \notin DOMAIN node_by_id
            THEN /\ node_by_id' = [i \in DOMAIN node_by_id \cup {normalized_id} |->
                                     IF i = normalized_id THEN node ELSE node_by_id[i]]
                 /\ node_entries' = Append(node_entries, node)
                 /\ base_name_index' = index_base_name(normalized_id, base_name_index)
            ELSE UNCHANGED <<node_by_id, node_entries, base_name_index>>
  /\ UNCHANGED <<cgPc, cgOptions, cgNetworkx, edge_stats, ambiguous_calls, cgErrors,
                 cgI, cgSub, cgScanned, cgAmbiguous, cgHits, cgResult>>

\* The node loop ends, the scan loop (line 73) starts at the first object.
cgBeginScan ==
  /\ cgPc = "index"
  /\ cgPc' = "scan"
  /\ cgI' = 1
  /\ cgSub' = "exec"
  /\ UNCHANGED <<cgOptions, cgNetworkx, cgObjects, node_entries, node_by_id,
                 base_name_index, edge_stats, ambiguous_calls, cgErrors, cgScanned,
                 cgAmbiguous, cgHits, cgResult>>

\* Whether the scan loop processes object i (lines 45, 74-76).
Scannable(i) ==
  /\ i \in 1..Len(cgObjects)
  /\ include_object(cgObjects[i], cgOptions)
  /\ normalize_full_name(cgObjects[i].name, cgOptions.case_insensitive) \in DOMAIN node_by_id

\* The effect of one resolved or unresolved call (lines 94-105, 112-123).
ApplyCall(name, kind, signal, object_type) ==
  LET obj == cgObjects[cgI]
      caller_id == normalize_full_name(obj.name, cgOptions.case_insensitive)
      r == resolve_target(name, base_name_index, node_by_id, cgOptions, object_type,
                          ambiguous_calls, obj.name)
      key == <<caller_id, r.target, kind>>
  IN  /\ cgAmbiguous' = IF ~r.ambiguous THEN cgAmbiguous
                        ELSE IF r.key \in DOMAIN cgAmbiguous
                        THEN [cgAmbiguous EXCEPT ![r.key] = @ + 1]
                        ELSE [k \in DOMAIN cgAmbiguous \cup {r.key} |->
                                IF k = r.key THEN 1 ELSE cgAmbiguous[k]]
      /\ IF r.error
         THEN /\ cgErrors' = Append(cgErrors, AmbiguousError(r.key[1], r.key[2]))
              /\ ambiguous_calls' = ambiguous_calls \cup {r.key}
         ELSE UNCHANGED <<cgErrors, ambiguous_calls>>
      /\ IF r.target # NoTarget
         THEN /\ edge_stats' = record_edge(edge_stats, caller_id, r.target, kind, signal)
              /\ cgHits' = IF key \in DOMAIN cgHits
                           THEN [cgHits EXCEPT ![key] = @ + 1]
                           ELSE [k \in DOMAIN cgHits \cup {key} |->
                                   IF k = key THEN 1 ELSE cgHits[k]]
         ELSE UNCHANGED <<edge_stats, cgHits>>

\* Lines 88-105: the next match of exec_pattern in the object's cleaned SQL.
cgScanExec(kind, name) ==
  /\ cgPc = "scan"
  /\ cgSub = "exec"
  /\ Scannable(cgI)
  /\ cgScanned < MaxCalls
  /\ cgScanned' = cgScanned + 1
  /\ IF cgOptions.ignore_dynamic_exec /\ is_dynamic_exec(name, cgOptions)
     THEN UNCHANGED <<cgAmbiguous, cgErrors, ambiguous_calls, edge_stats, cgHits>>
     ELSE ApplyCall(name, kind, IF kind = "execute" THEN "EXECUTE" ELSE "EXEC", "procedure")
  /\ UNCHANGED <<cgPc, cgOptions, cgNetworkx, cgObjects, node_entries, node_by_id,
                 base_name_index, cgI, cgSub, cgResult>>

\* Lines 107-123: the next match of function_pattern; a match on the name of a
\* CREATE/ALTER FUNCTION header is skipped.
cgScanFunction(name, in_definition) ==
  /\ cgPc = "scan"
  /\ Scannable(cgI)
  /\ cgScanned < MaxCalls
  /\ cgScanned' = cgScanned + 1
  /\ cgSub' = "func"
  /\ IF in_definition
     THEN UNCHANGED <<cgAmbiguous, cgErrors, ambiguous_calls, edge_stats, cgHits>>
     ELSE ApplyCall(name, "function_call", "FUNCTION", "function")
  /\ UNCHANGED <<cgPc, cgOptions, cgNetworkx, cgObjects, node_entries, node_by_id,
                 base_name_index, cgI, cgResult>>

\* The scan loop moves on to the next object.
cgNextObject ==
  /\ cgPc = "scan"
  /\ cgI <= Len(cgObjects)
  /\ cgI' = cgI + 1
  /\ cgSub' = "exec"
  /\ UNCHANGED <<cgPc, cgOptions, cgNetworkx, cgObjects, node_entries, node_by_id,
                 base_name_index, edge_stats, ambiguous_calls, cgErrors, cgScanned,
                 cgAmbiguous, cgHits, cgResult>>

\* ASCII order of the three edge kinds.
KindRank(kind) ==
  CASE kind = "exec" -> 1
    [] kind = "execute" -> 2
    [] OTHER -> 3

\* The sort key (from, to, kind) of line 140.
EdgeLess(a, b) ==
  \/ IdLess(a.from, b.from)
  \/ a.from = b.from /\ IdLess(a.to, b.to)
  \/ a.from = b.from /\ a.to = b.to /\ KindRank(a.kind) < KindRank(b.kind)

NodeLess(a, b) == IdLess(a.id, b.id)

\* A set as a list, in the order Less.
SortSet(S, Less(_, _)) ==
  [k \in 1..Cardinality(S) |->
     CHOOSE e \in S : Cardinality({x \in S : Less(x, e)}) = k - 1]

\* _build_edges that keeps every entry of edge_stats.
build_edges_unfiltered(stats, nodes) ==
  { [from |-> k[1], to |-> k[2], kind |-> k[3],
     count |-> stats[k].count, signals |-> stats[k].signals] : k \in DOMAIN stats }

\* _build_edges: the entries of edge_stats whose two ends are kept nodes.
build_edges(stats, nodes) ==
  { [from |-> k[1], to |-> k[2], kind |-> k[3],
     count |-> stats[k].count, signals |-> stats[k].signals] :
    k \in {x \in DOMAIN stats : x[1] \in DOMAIN nodes /\ x[2] \in DOMAIN nodes} }

\* _build_topology
build_topology(nodes, edges) ==
  LET ids == {n.id : n \in Range(nodes)}
      in_degree == [i \in ids |-> Cardinality({k \in 1..Len(edges) : edges[k].to = i})]
      out_degree == [i \in ids |-> Cardinality({k \in 1..Len(edges) : edges[k].from = i})]
  IN  [roots |-> SortSet({i \in ids : in_degree[i] = 0}, IdLess),
       leaves |-> SortSet({i \in ids : out_degree[i] = 0}, IdLess),
       in_degree |-> in_degree,
       out_degree |-> out_degree]

\* networkx.is_directed_acyclic_graph: the graph is acyclic exactly when
\* removing nodes without incoming edge, again and again, removes them all.
RECURSIVE Peel(_, _)
Peel(nodes, arcs) ==
  LET free == {n \in nodes : ~\E a \in arcs : a[2] = n /\ a[1] \in nodes}
  IN  IF free = {} THEN nodes ELSE Peel(nodes \ free, arcs)

is_directed_acyclic_graph(arcs) ==
  Peel({a[1] : a \in arcs} \cup {a[2] : a \in arcs}, arcs) = {}

\* _detect_cycles that never finds a cycle. C5 must reject it.
detect_cycles_never(edges, networkx) ==
  IF ~networkx
  THEN [has_cycles |-> FALSE, error |-> <<LimitError("CYCLE_DETECTION_UNAVAILABLE")>>]
  ELSE [has_cycles |-> FALSE, error |-> <<>>]

\* _detect_cycles: (has_cycles, error or none)
detect_cycles(edges, networkx) ==
  IF ~networkx
  THEN [has_cycles |-> FALSE, error |-> <<LimitError("CYCLE_DETECTION_UNAVAILABLE")>>]
  ELSE [has_cycles |-> ~is_directed_acyclic_graph({<<e.from, e.to>> : e \in Range(edges)}),
        error |-> <<>>]

\* Lines 125-172: sort, truncate, build the edges, the topology, the summary.
\* Whether networkx can be imported is looked up during the call (line 342).
cgFinish(networkx) ==
  /\ cgPc = "scan"
  /\ cgI > Len(cgObjects)
  /\ cgPc' = "done"
  /\ cgNetworkx' = networkx
  /\ LET sorted_nodes == StableSort(node_entries, NodeLess)
         node_over == Len(sorted_nodes) > cgOptions.max_nodes
         nodes == IF node_over THEN Take(sorted_nodes, cgOptions.max_nodes) ELSE sorted_nodes
         by_id == IF node_over
                  THEN [i \in {n.id : n \in Range(nodes)} |-> node_by_id[i]]
                  ELSE node_by_id
         errors1 == IF node_over
                    THEN Append(cgErrors, LimitError("NODE_LIMIT_EXCEEDED")) ELSE cgErrors
         all_edges == SortSet(build_edges(edge_stats, by_id), EdgeLess)
         edge_over == Len(all_edges) > cgOptions.max_edges
         edges == IF edge_over THEN Take(all_edges, cgOptions.max_edges) ELSE all_edges
         errors2 == IF edge_over
                    THEN Append(errors1, LimitError("EDGE_LIMIT_EXCEEDED")) ELSE errors1
         cycles == detect_cycles(edges, networkx)
     IN  /\ node_entries' = nodes
         /\ node_by_id' = by_id
         /\ cgErrors' = errors2 \o cycles.error
         /\ cgResult' = [done |-> TRUE,
                         summary |-> [object_count |-> Len(cgObjects),
                                      node_count |-> Len(nodes),
                                      edge_count |-> Len(edges),
                                      has_cycles |-> cycles.has_cycles,
                                      truncated |-> node_over \/ edge_over],
                         nodes |-> nodes,
                         edges |-> edges,
                         topology |-> build_topology(nodes, edges),
                         errors |-> errors2 \o cycles.error]
  /\ UNCHANGED <<cgOptions, cgObjects, base_name_index, edge_stats,
                 ambiguous_calls, cgI, cgSub, cgScanned, cgAmbiguous, cgHits>>

cgInit ==
  /\ cgPc = "index"
  /\ cgOptions \in OptionsPool
  /\ cgNetworkx = FALSE
  /\ cgObjects = <<>>
  /\ node_entries = <<>>
  /\ node_by_id = EmptyMap
  /\ base_name_index = EmptyMap
  /\ edge_stats = EmptyMap
  /\ ambiguous_calls = {}
  /\ cgErrors = <<>>
  /\ cgI = 0
  /\ cgSub = "exec"
  /\ cgScanned = 0
  /\ cgAmbiguous = EmptyMap
  /\ cgHits = EmptyMap
  /\ cgResult = NoResult

\* The state of the call-graph builder while another service is exercised.
cgIdle ==
  /\ cgPc = "idle"
  /\ cgOptions = DefaultOptions
  /\ cgNetworkx = FALSE
  /\ cgObjects = <<>>
  /\ node_entries = <<>>
  /\ node_by_id = EmptyMap
  /\ base_name_index = EmptyMap
  /\ edge_stats = EmptyMap
  /\ ambiguous_calls = {}
  /\ cgErrors = <<>>
  /\ cgI = 0
  /\ cgSub = "exec"
  /\ cgScanned = 0
  /\ cgAmbiguous = EmptyMap
  /\ cgHits = EmptyMap
  /\ cgResult = NoResult

(***************************************************************************)
(* Callers finder: src/app/services/tsql_callers.py                        *)
(***************************************************************************)
VARIABLES
  fcPc,        \* "input" | "done"
  fcOptions,   \* the CallerOptions of the call
  fcObjects,   \* the objects argument of find_callers: [name, type, sql]
  fcRuns,      \* number of runs of equal objects the list was built from
  fcProcess,   \* objects_to_process, the list _apply_limits returns (line 72)
  fcScanned,   \* the objects whose SQL the loop of lines 79-127 scanned
  fcResult     \* the returned dict, once done

fcVars == <<fcPc, fcOptions, fcObjects, fcRuns, fcProcess, fcScanned, fcResult>>

MAX_OBJECTS == 500

MAX_TOTAL_SQL_LENGTH == 1000000

\* The target of the modelled calls.
fcTarget == <<Plain("dbo"), Plain("f")>>

\* An SQL text, as far as find_callers looks at it: its length, and the calls
\* of the target that exec_pattern and function_pattern find in it, in order.
SqlPool ==
  { [len |-> 0, exec |-> <<>>, func |-> 0],
    [len |-> 10, exec |-> <<"exec">>, func |-> 0],
    [len |-> 2001, exec |-> <<>>, func |-> 0],
    [len |-> MAX_TOTAL_SQL_LENGTH, exec |-> <<"execute", "exec", "execute">>, func |-> 2] }

\* A list of objects is built from runs of equal objects: single objects of
\* every kind, and MAX_OBJECTS objects that do not call the target.
RunPool ==
  { [count |-> 1, object |-> [name |-> n, type |-> "procedure", sql |-> q]] :
      n \in (NamePool \ {<<Plain("f")>>}) \cup {<<Plain("ALT"), Plain("f")>>},
      q \in SqlPool }
  \cup { [count |-> MAX_OBJECTS,
          object |-> [name |-> <<Plain("alt"), Plain("f")>>, type |-> "procedure", sql |-> q]] :
           q \in {x \in SqlPool : x.len \in {0, 2001}} }

\* CallerOptions, lines 43-46
DefaultCallerOptions ==
  [case_insensitive |-> TRUE, schema_sensitive |-> FALSE, include_self |-> FALSE]

CallerOptionsPool ==
  { DefaultCallerOptions,
    [DefaultCallerOptions EXCEPT !.include_self = TRUE],
    [DefaultCallerOptions EXCEPT !.case_insensitive = FALSE] }

FcError(id, text) == [id |-> id, text |-> text]

\* sum(len(obj.sql) for obj in objects[lo-1:hi]); line 65 sums the whole
\* list.  The sum is split in halves to keep the evaluation shallow.
RECURSIVE total_sql_length(_, _, _)
total_sql_length(objects, lo, hi) ==
  IF lo > hi THEN 0
  ELSE IF lo = hi THEN objects[lo].sql.len
  ELSE LET mid == (lo + hi) \div 2
       IN  total_sql_length(objects, lo, mid) + total_sql_length(objects, mid + 1, hi)

\* The first position in lo..hi at which the loop of lines 177-181 breaks:
\* the first object with running_length + len(sql) > MAX_TOTAL_SQL_LENGTH.
\* running_length never decreases, so the position is found by bisection.
RECURSIVE break_position(_, _, _)
break_position(objects, lo, hi) ==
  IF lo = hi THEN lo
  ELSE LET mid == (lo + hi) \div 2
       IN  IF total_sql_length(objects, 1, mid) > MAX_TOTAL_SQL_LENGTH
           THEN break_position(objects, lo, mid)
           ELSE break_position(objects, mid + 1, hi)

\* The loop of lines 175-181 over objects_to_process, the first n objects:
\* the number of objects appended to trimmed.
trim_loop(objects, n) ==
  IF total_sql_length(objects, 1, n) <= MAX_TOTAL_SQL_LENGTH
  THEN n
  ELSE break_position(objects, 1, n) - 1

\* _apply_limits without the slice of line 164. C6 must reject it.
apply_limits_unsliced(objects, total_length) ==
  LET objects_to_process == objects
      errors1 == IF Len(objects) > MAX_OBJECTS
                 THEN <<FcError("object_limit_exceeded",
                                <<MAX_OBJECTS, Len(objects), Len(objects_to_process)>>)>>
                 ELSE <<>>
      errors2 == IF total_length > MAX_TOTAL_SQL_LENGTH
                 THEN Append(errors1, FcError("sql_limit_exceeded",
                                              <<MAX_TOTAL_SQL_LENGTH, total_length>>))
                 ELSE errors1
      trimmed == SubSeq(objects, 1, trim_loop(objects, Len(objects_to_process)))
      errors3 == IF Len(trimmed) < Len(objects_to_process)
                    /\ total_length <= MAX_TOTAL_SQL_LENGTH
                 THEN Append(errors2, FcError("sql_limit_exceeded", <<"truncated_objects">>))
                 ELSE errors2
  IN  [trimmed |-> trimmed, errors |-> errors3]

\* _apply_limits: (trimmed, the errors appended)
apply_limits(objects, total_length) ==
  LET objects_to_process == Take(objects, MAX_OBJECTS)
      errors1 == IF Len(objects) > MAX_OBJECTS
                 THEN <<FcError("object_limit_exceeded",
                                <<MAX_OBJECTS, Len(objects), Len(objects_to_process)>>)>>
                 ELSE <<>>
      errors2 == IF total_length > MAX_TOTAL_SQL_LENGTH
                 THEN Append(errors1, FcError("sql_limit_exceeded",
                                              <<MAX_TOTAL_SQL_LENGTH, total_length>>))
                 ELSE errors1
      trimmed == SubSeq(objects, 1, trim_loop(objects, Len(objects_to_process)))
      errors3 == IF Len(trimmed) < Len(objects_to_process)
                    /\ total_length <= MAX_TOTAL_SQL_LENGTH
                 THEN Append(errors2, FcError("sql_limit_exceeded", <<"truncated_objects">>))
                 ELSE errors2
  IN  [trimmed |-> trimmed, errors |-> errors3]

\* _is_self that compares the name as written, letter case included.
is_self_case_sensitive(name, normalized_target, case_insensitive) ==
  normalize_full_name(name, FALSE) = normalized_target

\* _is_self; _normalize_full_name of tsql_callers.py is the code of
\* tsql_call_graph.py.
is_self(name, normalized_target, case_insensitive) ==
  normalize_full_name(name, case_insensitive) = normalized_target

\* _find_exec_calls: (kind, signal) of every match that names the target
find_exec_calls(sql) ==
  [i \in 1..Len(sql.exec) |->
     <<sql.exec[i], IF sql.exec[i] = "execute" THEN "EXECUTE" ELSE "EXEC">>]

\* _find_function_calls
find_function_calls(sql) ==
  [i \in 1..sql.func |-> <<"function_call", "FUNCTION">>]

\* _ordered_unique: the first occurrence of every item, in order
ordered_unique(items) ==
  LET first == {i \in 1..Len(items) : \A j \in 1..(i - 1) : items[j] # items[i]}
  IN  [k \in 1..Cardinality(first) |->
         items[CHOOSE i \in first : Cardinality({j \in first : j < i}) = k - 1]]
\* The character codes of the lowered raw name: caller["name"].lower()
RECURSIVE RawLower(_)
RawLower(name) ==
  IF Len(name) = 0 THEN <<>>
  ELSE LET text == Chars(Lower(name[1].s))
           part == IF name[1].q = "bracket" THEN <<91>> \o text \o <<93>> ELSE text
       IN  IF Len(name) = 1 THEN part ELSE part \o <<46>> \o RawLower(Tail(name))

\* The sort key of line 129: (-call_count, name.lower())
CallerLess(a, b) ==
  \/ a.call_count > b.call_count
  \/ a.call_count = b.call_count /\ LexLess(RawLower(a.name), RawLower(b.name))

RECURSIVE total_calls(_, _)
total_calls(callers, n) ==
  IF n = 0 THEN 0 ELSE callers[n].call_count + total_calls(callers, n - 1)

\* One more run of equal objects is put at the end of the objects argument.
fcAddRun(run) ==
  /\ fcPc = "input"
  /\ fcRuns < MaxRuns
  /\ fcRuns' = fcRuns + 1
  /\ fcObjects' = fcObjects \o [i \in 1..run.count |-> run.object]
  /\ UNCHANGED <<fcPc, fcOptions, fcProcess, fcScanned, fcResult>>

\* Lines 93-113: the matches of the target in one object
find_matches(sql, target_type) ==
  IF target_type = "function" THEN find_function_calls(sql) ELSE find_exec_calls(sql)

\* Lines 118-127: the entry of an object with matches
caller_entry(sql_object, matches) ==
  [name |-> sql_object.name,
   type |-> sql_object.type,
   call_count |-> Len(matches),
   call_kinds |-> ordered_unique([k \in 1..Len(matches) |-> matches[k][1]]),
   signals |-> Take(ordered_unique([k \in 1..Len(matches) |-> matches[k][2]]), SIGNAL_LIMIT)]

\* Lines 115-129: the entries of the scanned objects that have matches, sorted
sorted_callers(calling, target_type) ==
  StableSort([i \in 1..Len(calling) |->
                caller_entry(calling[i], find_matches(calling[i].sql, target_type))],
             CallerLess)

\* Lines 131-151: the returned dict
callers_result(target_type, callers, errors) ==
  [done |-> TRUE,
   target |-> [name |-> fcTarget, type |-> target_type,
               normalized |-> normalize_full_name(fcTarget, TRUE)],
   summary |-> [has_callers |-> total_calls(callers, Len(callers)) > 0,
                caller_count |-> Len(callers),
                total_calls |-> total_calls(callers, Len(callers))],
   callers |-> callers,
   errors |-> errors]

\* find_callers(target, target_type, objects, options)
find_callers(target_type, options) ==
  /\ fcPc = "input"
  /\ fcPc' = "done"
  /\ fcOptions' = options
  /\ LET comparison_target == normalize_full_name(fcTarget, options.case_insensitive)
         limited == apply_limits(fcObjects, total_sql_length(fcObjects, 1, Len(fcObjects)))
     IN  /\ fcProcess' = limited.trimmed
         /\ fcScanned' = SelectSeq(fcProcess',
                           LAMBDA o : options.include_self
                                      \/ ~is_self(o.name, comparison_target,
                                                  options.case_insensitive))
         /\ fcResult' = callers_result(
                          target_type,
                          sorted_callers(
                            SelectSeq(fcScanned',
                                      LAMBDA o : Len(find_matches(o.sql, target_type)) > 0),
                            target_type),
                          limited.errors)
  /\ UNCHANGED <<fcObjects, fcRuns>>

fcInit ==
  /\ fcPc = "input"
  /\ fcOptions = DefaultCallerOptions
  /\ fcObjects = <<>>
  /\ fcRuns = 0
  /\ fcProcess = <<>>
  /\ fcScanned = <<>>
  /\ fcResult = NoResult

fcIdle ==
  /\ fcPc = "idle"
  /\ fcOptions = DefaultCallerOptions
  /\ fcObjects = <<>>
  /\ fcRuns = 0
  /\ fcProcess = <<>>
  /\ fcScanned = <<>>
  /\ fcResult = NoResult

(***************************************************************************)
(* Strings.  Python orders strings by character code; the strings of the   *)
(* model, in that order.                                                   *)
(***************************************************************************)
AsciiOrder ==
  << "DEP_1", "DEP_2", "DEP_3", "DEP_4", "DEP_5", "IMP_1", "IMP_2", "IMP_3",
     "IMP_4", "IMP_5", "IMP_CURSOR", "IMP_DYN_SQL", "IMP_MERGE",
     "IMP_TEMP_TABLE", "PRF_1", "PRF_2", "PRF_3", "PRF_4", "PRF_5", "R1",
     "R2", "R3", "R4", "R5", "REC_1", "REC_2", "REC_3", "REC_4", "REC_5",
     "RSN_CURSOR", "RSN_DYN_SQL", "RSN_READ_ONLY", "RSN_TEMP_OBJECTS",
     "RSN_TXN", "RSN_WRITES", "Rule list truncated to max_rules limit.",
     "SECTION_NOT_AVAILABLE: business_rules",
     "SECTION_NOT_AVAILABLE: control_flow",
     "SECTION_NOT_AVAILABLE: data_changes",
     "SECTION_NOT_AVAILABLE: db_dependency",
     "SECTION_NOT_AVAILABLE: difficulty",
     "SECTION_NOT_AVAILABLE: error_handling",
     "SECTION_NOT_AVAILABLE: migration_impacts",
     "SECTION_NOT_AVAILABLE: mybatis_strategy",
     "SECTION_NOT_AVAILABLE: perf_risk", "SECTION_NOT_AVAILABLE: references",
     "SECTION_NOT_AVAILABLE: transactions",
     "SECTION_NOT_AVAILABLE: tx_boundary",
     "SECTION_TRUNCATED: dependencies.cross_db",
     "SECTION_TRUNCATED: dependencies.functions",
     "SECTION_TRUNCATED: dependencies.linked_servers",
     "SECTION_TRUNCATED: dependencies.tables",
     "SECTION_TRUNCATED: recommendations",
     "SECTION_TRUNCATED: risks.db_dependency",
     "SECTION_TRUNCATED: risks.migration_impacts",
     "SECTION_TRUNCATED: risks.performance", "SECTION_TRUNCATED: rules",
     "SECTION_TRUNCATED: tags", "SECTION_TRUNCATED: templates", "TPL_1",
     "TPL_2", "TPL_3", "TPL_4", "TPL_5",
     "Template suggestions truncated to max_templates limit.",
     "business_rules", "control_flow",
     "control_flow_graph_truncated: node_limit_exceeded", "cross_db",
     "cursor", "data_changes", "db1", "db1.dbo.t1", "db2", "db2.dbo.t2",
     "db3", "db3.dbo.t3", "db4", "db4.dbo.t4", "db5", "db5.dbo.t5",
     "db_dependency", "dbo.fn1", "dbo.fn2", "dbo.fn3", "dbo.fn4", "dbo.fn5",
     "dbo.t1", "dbo.t2", "dbo.t3", "dbo.t4", "dbo.t5",
     "dependency_items_truncated: max_items=-1",
     "dependency_items_truncated: max_items=0",
     "dependency_items_truncated: max_items=1",
     "dependency_items_truncated: max_items=2",
     "dependency_items_truncated: max_items=3",
     "dependency_items_truncated: max_items=4", "difficulty",
     "difficulty_high", "dynamic_sql", "error_handling",
     "findings_truncated: max_findings=-1",
     "findings_truncated: max_findings=0",
     "findings_truncated: max_findings=1",
     "findings_truncated: max_findings=2",
     "findings_truncated: max_findings=3",
     "findings_truncated: max_findings=4", "has_writes", "high_complexity",
     "input_error: analyze", "linked_server", "low_complexity",
     "max_items_exceeded: truncated reasons and recommendations",
     "max_items_exceeded: truncated suggestions/anti_patterns/notes",
     "max_reason_items_exceeded: truncated factors and recommendations",
     "merge", "migration_impacts", "mybatis_strategy", "no_txn",
     "parse_error: invalid expression", "perf_risk", "perf_risk_high",
     "read_only", "references", "srv1", "srv2", "srv3", "srv4", "srv5",
     "tags", "temp_objects", "transactions", "tx_boundary",
     "uses_transaction" >>

AsciiIndex(s) == CHOOSE i \in 1..Len(AsciiOrder) : AsciiOrder[i] = s

AsciiLess(a, b) == AsciiIndex(a) < AsciiIndex(b)

\* items[:n]
py_prefix(items, n) ==
  IF n >= 0 THEN Take(items, n) ELSE Take(items, Max(0, Len(items) + n))

\* The texts prefix1 .. prefixn, last first: n items of a list, not yet sorted.
Names(prefix, n) == [i \in 1..n |-> prefix \o ToString(n + 1 - i)]

(***************************************************************************)
(* Scorers: the caps of tsql_reusability.py, tsql_mybatis_difficulty.py,   *)
(* tsql_mapping_strategy.py, tsql_tx_boundary.py, tsql_performance_risk.py *)
(* and tsql_db_dependency.py.  A scorer call is modelled from the point    *)
(* where its lists are built and the cap is applied.                       *)
(***************************************************************************)
VARIABLES
  scPc,       \* "ready" | "done"
  scScorer,   \* the scorer that was called
  scMax,      \* its max_items / max_reason_items / max_findings argument
  scPreCap,   \* its lists before the cap, by name
  scResult    \* the lists and the errors of the returned dict

scVars == <<scPc, scScorer, scMax, scPreCap, scResult>>

\* sorted({item for item in items if item}), the _sorted_unique of the scorers
scorer_sorted_unique(items) ==
  SortSet({x \in Range(items) : x # ""}, AsciiLess)

\* tsql_reusability._normalize_reasons, lines 421-425: the first reason of
\* every id, in input order
first_by_id(reasons) ==
  LET first == {i \in 1..Len(reasons) : \A j \in 1..(i - 1) : reasons[j].id # reasons[i].id}
  IN  [k \in 1..Cardinality(first) |->
         reasons[CHOOSE i \in first : Cardinality({j \in first : j < i}) = k - 1]]

Abs(n) == IF n < 0 THEN -n ELSE n

\* The sort key (-abs(weight), id) of line 429
ReasonLess(a, b) ==
  \/ Abs(a.weight) > Abs(b.weight)
  \/ Abs(a.weight) = Abs(b.weight) /\ AsciiLess(a.id, b.id)

\* The list _normalize_reasons sorts, lines 427-430
sorted_reasons(reasons) == StableSort(first_by_id(reasons), ReasonLess)

\* tsql_reusability._normalize_reasons
normalize_reasons(reasons, max_items) ==
  py_prefix(sorted_reasons(reasons), Max(0, max_items))

\* tsql_mybatis_difficulty._apply_max_items
difficulty_apply_max_items(factors, recommendations, max_items) ==
  LET error == "max_reason_items_exceeded: truncated factors and recommendations"
  IN  IF max_items <= 0
      THEN [factors |-> <<>>, recommendations |-> <<>>, truncated |-> TRUE, error |-> <<error>>]
      ELSE IF Len(factors) + Len(recommendations) <= max_items
      THEN [factors |-> factors, recommendations |-> recommendations,
            truncated |-> FALSE, error |-> <<>>]
      ELSE IF Len(factors) >= max_items
      THEN [factors |-> py_prefix(factors, max_items), recommendations |-> <<>>,
            truncated |-> TRUE, error |-> <<error>>]
      ELSE [factors |-> factors,
            recommendations |-> py_prefix(recommendations, max_items - Len(factors)),
            truncated |-> TRUE, error |-> <<error>>]

\* tsql_mapping_strategy._apply_max_items
mapping_apply_max_items(reasons, recommendations, max_items) ==
  LET error == "max_items_exceeded: truncated reasons and recommendations"
  IN  IF max_items <= 0
      THEN [reasons |-> <<>>, recommendations |-> <<>>, error |-> <<error>>]
      ELSE IF Len(reasons) + Len(recommendations) <= max_items
      THEN [reasons |-> reasons, recommendations |-> recommendations, error |-> <<>>]
      ELSE IF Len(reasons) >= max_items
      THEN [reasons |-> py_prefix(reasons, max_items), recommendations |-> <<>>,
            error |-> <<error>>]
      ELSE [reasons |-> reasons,
            recommendations |-> py_prefix(recommendations, max_items - Len(reasons)),
            error |-> <<error>>]

\* tsql_tx_boundary._apply_max_items
tx_apply_max_items(suggestions, anti_patterns, notes, max_items) ==
  LET error == "max_items_exceeded: truncated suggestions/anti_patterns/notes"
      trimmed_suggestions == py_prefix(suggestions, max_items)
      remaining1 == max_items - Len(trimmed_suggestions)
      trimmed_anti_patterns == py_prefix(anti_patterns, Max(0, remaining1))
      remaining2 == remaining1 - Len(trimmed_anti_patterns)
  IN  IF max_items <= 0
      THEN [suggestions |-> <<>>, anti_patterns |-> <<>>, notes |-> <<>>, error |-> <<error>>]
      ELSE IF Len(suggestions) + Len(anti_patterns) + Len(notes) <= max_items
      THEN [suggestions |-> suggestions, anti_patterns |-> anti_patterns, notes |-> notes,
            error |-> <<>>]
      ELSE [suggestions |-> trimmed_suggestions,
            anti_patterns |-> trimmed_anti_patterns,
            notes |-> py_prefix(notes, Max(0, remaining2)),
            error |-> <<error>>]

\* tsql_performance_risk.analyze_performance_risk, lines 385-389
cap_findings(findings, max_findings) ==
  IF Len(findings) > max_findings
  THEN [findings |-> py_prefix(findings, max_findings), truncated |-> TRUE,
        error |-> <<"findings_truncated: max_findings=" \o ToString(max_findings)>>]
  ELSE [findings |-> findings, truncated |-> FALSE, error |-> <<>>]

\* tsql_db_dependency._truncate_dependencies: the six lists share one budget
ordered_keys ==
  << "cross_database", "linked_servers", "remote_exec", "external_access",
     "system_objects", "tempdb_signals" >>

RECURSIVE truncate_loop(_, _, _, _, _, _)
truncate_loop(dependencies, new_deps, k, total, truncated, max_items) ==
  IF k > Len(ordered_keys)
  THEN [dependencies |-> new_deps, truncated |-> truncated]
  ELSE LET key == ordered_keys[k]
           items == dependencies[key]
           remaining == max_items - total
       IN  IF total >= max_items
           THEN truncate_loop(dependencies, [new_deps EXCEPT ![key] = <<>>],
                              k + 1, total, TRUE, max_items)
           ELSE IF Len(items) > remaining
           THEN truncate_loop(dependencies,
                              [new_deps EXCEPT ![key] = py_prefix(items, remaining)],
                              k + 1, total + remaining, TRUE, max_items)
           ELSE truncate_loop(dependencies, [new_deps EXCEPT ![key] = items],
                              k + 1, total + Len(items), truncated, max_items)

truncate_dependencies(dependencies, max_items) ==
  IF max_items <= 0
  THEN [dependencies |-> [key \in DOMAIN dependencies |-> <<>>], truncated |-> TRUE]
  ELSE truncate_loop(dependencies, [key \in Range(ordered_keys) |-> <<>>],
                     1, 0, FALSE, max_items)

\* tsql_db_dependency.analyze_db_dependency, lines 333-339
cap_dependencies(dependencies, max_items) ==
  LET capped == IF max_items > 0
                THEN truncate_dependencies(dependencies, max_items)
                ELSE [dependencies |-> dependencies, truncated |-> FALSE]
  IN  [dependencies |-> capped.dependencies, truncated |-> capped.truncated,
       errors |-> IF capped.truncated
                  THEN <<"dependency_items_truncated: max_items=" \o ToString(max_items)>>
                  ELSE <<>>]

\* What a scorer can be given: the reasons evaluate_reusability collects
\* (lines 119-206: one of RSN_WRITES / RSN_READ_ONLY, then one reason per
\* signal found), the errors of the analyzers a scorer runs first, the lists a
\* scorer builds, and the caps a caller can pass.
RSN_WRITES == [id |-> "RSN_WRITES", weight |-> 25]

RSN_READ_ONLY == [id |-> "RSN_READ_ONLY", weight |-> 15]

SignalReasons ==
  << [id |-> "RSN_TXN", weight |-> 15],
     [id |-> "RSN_DYN_SQL", weight |-> 20],
     [id |-> "RSN_CURSOR", weight |-> 20],
     [id |-> "RSN_TEMP_OBJECTS", weight |-> 10] >>

ReasonLists ==
  { <<first>> \o SelectSeq(SignalReasons, LAMBDA r : r \in found) :
      first \in {RSN_WRITES, RSN_READ_ONLY},
      found \in SUBSET Range(Take(SignalReasons, MaxItems)) }

AnalysisErrors == {<<>>, <<"parse_error: invalid expression">>}

CapPool == (-1)..MaxItems

ItemLists(prefix) == {Names(prefix, n) : n \in 0..MaxItems}

DependencyPool ==
  [Range(ordered_keys) -> ItemLists("DEP_")]

scDone(scorer, max_items, pre_cap, result) ==
  /\ scPc = "ready"
  /\ scPc' = "done"
  /\ scScorer' = scorer
  /\ scMax' = max_items
  /\ scPreCap' = pre_cap
  /\ scResult' = result

\* tsql_reusability.evaluate_reusability, from line 297 on
evaluate_reusability(reasons, analysis_errors, max_reason_items) ==
  scDone("reusability", max_reason_items,
         [reasons |-> sorted_reasons(reasons)],
         [reasons |-> normalize_reasons(reasons, max_reason_items),
          errors |-> scorer_sorted_unique(analysis_errors)])

\* tsql_mybatis_difficulty.evaluate_mybatis_difficulty, lines 218-231
evaluate_mybatis_difficulty(factors, recommendations, analysis_errors, max_reason_items) ==
  LET capped == difficulty_apply_max_items(factors, recommendations, max_reason_items)
  IN  scDone("difficulty", max_reason_items,
             [factors |-> factors, recommendations |-> recommendations],
             [factors |-> capped.factors, recommendations |-> capped.recommendations,
              errors |-> scorer_sorted_unique(analysis_errors) \o capped.error])

\* tsql_mapping_strategy.recommend_mapping_strategy, lines 160-171
recommend_mapping_strategy(reasons, recommendations, analysis_errors, max_items) ==
  LET capped == mapping_apply_max_items(reasons, recommendations, max_items)
  IN  scDone("mybatis_strategy", max_items,
             [reasons |-> reasons, recommendations |-> recommendations],
             [reasons |-> capped.reasons, recommendations |-> capped.recommendations,
              errors |-> scorer_sorted_unique(analysis_errors) \o capped.error])

\* tsql_tx_boundary.recommend_transaction_boundary, lines 210-219
recommend_transaction_boundary(suggestions, anti_patterns, notes, max_items) ==
  LET capped == tx_apply_max_items(suggestions, anti_patterns, notes, max_items)
  IN  scDone("tx_boundary", max_items,
             [suggestions |-> suggestions, anti_patterns |-> anti_patterns,
              notes |-> notes],
             [suggestions |-> capped.suggestions,
              anti_patterns |-> capped.anti_patterns, notes |-> capped.notes,
              errors |-> capped.error])

\* tsql_performance_risk.analyze_performance_risk, lines 380-400
analyze_performance_risk(findings, scan_errors, max_findings) ==
  LET capped == cap_findings(findings, max_findings)
  IN  scDone("perf_risk", max_findings,
             [findings |-> findings],
             [findings |-> capped.findings, errors |-> scan_errors \o capped.error])

\* tsql_db_dependency.analyze_db_dependency, lines 324-372
analyze_db_dependency(dependencies, max_items) ==
  LET capped == cap_dependencies(dependencies, max_items)
  IN  scDone("db_dependency", max_items, dependencies,
             [dependencies |-> capped.dependencies, errors |-> capped.errors])

scInit ==
  /\ scPc = "ready"
  /\ scScorer = "none"
  /\ scMax = 0
  /\ scPreCap = <<>>
  /\ scResult = [errors |-> <<>>]

scIdle ==
  /\ scPc = "idle"
  /\ scScorer = "none"
  /\ scMax = 0
  /\ scPreCap = <<>>
  /\ scResult = [errors |-> <<>>]

(***************************************************************************)
(* Standardization spec: tsql_standardization_spec.py.  A dict is a record *)
(* (a function on its keys), the SQL text is what the analyzers find in    *)
(* it, a confidence is in hundredths.                                      *)
(***************************************************************************)
VARIABLES
  ssPc,        \* "ready" | "done" | "raised"
  ssSql,       \* the sql argument
  ssInputs,    \* the inputs argument
  ssOptions,   \* include_sections and max_items_per_section
  ssMissing,   \* the sections whose module or function cannot be loaded
  ssSections,  \* section name -> the payload _resolve_section returned
  ssPreCap,    \* list path -> the list handed to _cap_list
  ssReport     \* the lists of the report by path, its summary, its errors

ssVars ==
  <<ssPc, ssSql, ssInputs, ssOptions, ssMissing, ssSections, ssPreCap, ssReport>>

None == [none |-> TRUE]

\* `not payload` for a payload that is None or a dict
falsy(payload) == payload = None \/ DOMAIN payload = {}

\* dict.get(key, default)
get(payload, key, default) ==
  IF key \in DOMAIN payload THEN payload[key] ELSE default

ALL_SECTIONS ==
  << "references", "transactions", "migration_impacts", "control_flow",
     "data_changes", "error_handling", "business_rules", "mybatis_strategy",
     "tx_boundary", "difficulty", "perf_risk", "db_dependency" >>

\* The sections read from inputs["analyze"], lines 72-116
ANALYZE_SECTIONS ==
  << "references", "transactions", "migration_impacts", "control_flow",
     "data_changes", "error_handling" >>

\* The sections read from inputs itself, lines 127-234
SCORER_SECTIONS ==
  << "business_rules", "mybatis_strategy", "tx_boundary", "difficulty",
     "perf_risk", "db_dependency" >>

\* The list sections of the report, in the order they are capped
LIST_PATHS ==
  << "tags", "templates", "rules", "dependencies.tables",
     "dependencies.functions", "dependencies.cross_db",
     "dependencies.linked_servers", "risks.migration_impacts",
     "risks.performance", "risks.db_dependency", "recommendations" >>

RECURSIVE Concat(_)
Concat(lists) ==
  IF lists = <<>> THEN <<>> ELSE Head(lists) \o Concat(Tail(lists))

\* item.strip().lower() on the texts a caller writes in include_sections
strip_lower(text) ==
  CASE text = " PERF_RISK " -> "perf_risk"
    [] text = "References" -> "references"
    [] text = "Error_Handling " -> "error_handling"
    [] text = "  " -> ""
    [] OTHER -> text

\* _sorted_unique of the assembler: ordered dedupe, then sorted()
sorted_unique(items) == SortSet(Range(items), AsciiLess)

\* include_sections: list[str] | None
NoSections == [is_none |-> TRUE, list |-> <<>>]

Sections(list) == [is_none |-> FALSE, list |-> list]

normalize_sections(sections) ==
  IF sections.is_none \/ sections.list = <<>>
  THEN ALL_SECTIONS
  ELSE LET kept == SelectSeq(sections.list, LAMBDA item : strip_lower(item) # "")
       IN  sorted_unique([i \in 1..Len(kept) |-> strip_lower(kept[i])])

extract_input(inputs, key) ==
  IF falsy(inputs) THEN None ELSE get(inputs, key, None)

unwrap_section(payload, key) ==
  IF falsy(payload) THEN None
  ELSE IF key \in DOMAIN payload THEN payload[key]
  ELSE payload

\* _extend_errors: the entries it appends to errors
extend_errors(payload, key) ==
  IF falsy(payload) THEN <<>> ELSE get(payload, key, <<>>)

\* A _resolve_section that reports every unavailable section, requested or not
resolve_section_unrequested(section, include_sections, input_value, computed_value) ==
  IF input_value # None THEN [value |-> input_value, errors |-> <<>>]
  ELSE IF computed_value # None THEN [value |-> computed_value, errors |-> <<>>]
  ELSE [value |-> None, errors |-> <<"SECTION_NOT_AVAILABLE: " \o section>>]

\* _resolve_section: the payload it returns and the entries it appends to errors
resolve_section(section, include_sections, input_value, computed_value) ==
  IF input_value # None THEN [value |-> input_value, errors |-> <<>>]
  ELSE IF computed_value # None THEN [value |-> computed_value, errors |-> <<>>]
  ELSE [value |-> None,
        errors |-> IF section \in Range(include_sections)
                   THEN <<"SECTION_NOT_AVAILABLE: " \o section>>
                   ELSE <<>>]

RECURSIVE safe_get(_, _, _)
safe_get(payload, path, default) ==
  IF falsy(payload) THEN default
  ELSE IF path[1] \notin DOMAIN payload THEN default
  ELSE IF Len(path) = 1 THEN payload[path[1]]
  ELSE safe_get(payload[path[1]], Tail(path), default)

safe_list(payload, key) ==
  IF falsy(payload) THEN <<>> ELSE get(payload, key, <<>>)

\* _cap_list: the list it returns and the entries it appends to errors
cap_list(items, max_items, section_name) ==
  IF max_items <= 0 \/ Len(items) <= max_items
  THEN [items |-> items, errors |-> <<>>]
  ELSE [items |-> py_prefix(items, max_items),
        errors |-> <<"SECTION_TRUNCATED: " \o section_name>>]


\* The id of every item of a list of dicts, in order
Ids(items) == [i \in 1..Len(items) |-> items[i].id]

IdLessAscii(a, b) == AsciiLess(a.id, b.id)

\* _build_tags, then sorted(set(tags)) of line 250
build_tags(has_writes, uses_transaction, impact_ids, cyclomatic_complexity,
           linked, cross, perf_risk_level, level) ==
  sorted_unique(
    <<IF has_writes THEN "has_writes" ELSE "read_only">>
    \o <<IF uses_transaction THEN "uses_transaction" ELSE "no_txn">>
    \o (IF "IMP_DYN_SQL" \in impact_ids THEN <<"dynamic_sql">> ELSE <<>>)
    \o (IF "IMP_CURSOR" \in impact_ids THEN <<"cursor">> ELSE <<>>)
    \o (IF {"IMP_TEMP_TABLE", "IMP_TABLE_VARIABLE"} \cap impact_ids # {}
        THEN <<"temp_objects">> ELSE <<>>)
    \o (IF "IMP_MERGE" \in impact_ids THEN <<"merge">> ELSE <<>>)
    \o (IF cyclomatic_complexity <= 5 THEN <<"low_complexity">>
        ELSE IF cyclomatic_complexity >= 12 THEN <<"high_complexity">>
        ELSE <<>>)
    \o (IF linked # <<>> THEN <<"linked_server">> ELSE <<>>)
    \o (IF cross # <<>> THEN <<"cross_db">> ELSE <<>>)
    \o (IF perf_risk_level \in {"high", "critical"} THEN <<"perf_risk_high">> ELSE <<>>)
    \o (IF level \in {"high", "very_high"} THEN <<"difficulty_high">> ELSE <<>>))

\* The sort key (-confidence, id) of lines 254 and 258
ConfidenceLess(a, b) ==
  \/ a.confidence > b.confidence
  \/ a.confidence = b.confidence /\ AsciiLess(a.id, b.id)

\* _build_templates, then the sort of line 254
build_templates(business_rules) ==
  LET suggestions == safe_list(business_rules, "template_suggestions")
  IN  StableSort([i \in 1..Len(suggestions) |->
                    [id |-> suggestions[i].template_id,
                     confidence |-> suggestions[i].confidence]],
                 ConfidenceLess)

\* _build_rules, then the sort and the payloads of lines 258-259
build_rules(business_rules) ==
  LET rules == StableSort(safe_list(business_rules, "rules"), ConfidenceLess)
  IN  [i \in 1..Len(rules) |-> [id |-> rules[i].id]]

\* _build_recommendations, then the sort of line 326
build_recommendations(sources) ==
  LET given == Concat([i \in 1..Len(sources) |->
                         safe_list(sources[i], "recommendations")])
  IN  StableSort(first_by_id([i \in 1..Len(given) |-> [id |-> given[i].id]]),
                 IdLessAscii)

linked_servers(db_dependency) ==
  IF falsy(db_dependency) THEN <<>>
  ELSE LET items == SelectSeq(get(get(db_dependency, "dependencies", <<>>),
                                  "linked_servers", <<>>),
                              LAMBDA item : "server" \in DOMAIN item)
       IN  sorted_unique([i \in 1..Len(items) |-> items[i].server])

cross_db(db_dependency) ==
  IF falsy(db_dependency) THEN <<>>
  ELSE LET items == SelectSeq(get(get(db_dependency, "dependencies", <<>>),
                                  "cross_database", <<>>),
                              LAMBDA item :
                                {"database", "schema", "object"} \subseteq DOMAIN item)
       IN  sorted_unique([i \in 1..Len(items) |->
                            items[i].database \o "." \o items[i].schema
                              \o "." \o items[i].object])

difficulty_level(mapping_strategy, difficulty) ==
  LET level == safe_get(difficulty, <<"summary", "difficulty_level">>, "")
  IN  IF level # "" THEN level
      ELSE safe_get(mapping_strategy, <<"summary", "difficulty">>, "unknown")

\* Lines 236-327: the list of every list section, before its cap.  The
\* argument maps a section name to its payload, unwrapped (lines 123-125).
section_lists(payload) ==
  LET impacts == safe_list(payload["migration_impacts"], "items")
      linked == linked_servers(payload["db_dependency"])
      cross == cross_db(payload["db_dependency"])
  IN  [path \in Range(LIST_PATHS) |->
        CASE path = "tags" ->
               build_tags(safe_get(payload["data_changes"], <<"has_writes">>, FALSE),
                          safe_get(payload["transactions"], <<"uses_transaction">>, FALSE),
                          Range(Ids(impacts)),
                          safe_get(payload["control_flow"],
                                   <<"summary", "cyclomatic_complexity">>, 0),
                          linked, cross,
                          safe_get(payload["perf_risk"], <<"summary", "risk_level">>,
                                   "unknown"),
                          difficulty_level(payload["mybatis_strategy"],
                                           payload["difficulty"]))
          [] path = "templates" -> build_templates(payload["business_rules"])
          [] path = "rules" -> build_rules(payload["business_rules"])
          [] path = "dependencies.tables" ->
               sorted_unique(safe_get(payload["references"], <<"tables">>, <<>>))
          [] path = "dependencies.functions" ->
               sorted_unique(safe_get(payload["references"], <<"functions">>, <<>>))
          [] path = "dependencies.cross_db" -> cross
          [] path = "dependencies.linked_servers" -> linked
          [] path = "risks.migration_impacts" -> sorted_unique(Ids(impacts))
          [] path = "risks.performance" ->
               sorted_unique(Ids(safe_list(payload["perf_risk"], "findings")))
          [] path = "risks.db_dependency" ->
               sorted_unique(Ids(safe_list(payload["db_dependency"], "reasons")))
          [] path = "recommendations" ->
               build_recommendations(<<payload["mybatis_strategy"], payload["difficulty"],
                                       payload["perf_risk"], payload["db_dependency"]>>)]


\* ---- What the analyzers return.  The SQL text is summed up by the number n
\* of items every analyzer finds in it and by whether sqlglot parses it.
Items(prefix, n) == [i \in 1..n |-> [id |-> prefix \o ToString(n + 1 - i)]]

parse_errors(sql) ==
  IF sql.parse_ok THEN <<>> ELSE <<"parse_error: invalid expression">>

IMPACTS ==
  << [id |-> "IMP_DYN_SQL"], [id |-> "IMP_CURSOR"], [id |-> "IMP_TEMP_TABLE"],
     [id |-> "IMP_MERGE"] >>

\* tsql_analyzer: the primitive analyzers
analyze_references(sql) ==
  [references |-> [tables |-> Names("dbo.t", sql.n),
                   functions |-> Names("dbo.fn", sql.n)],
   errors |-> parse_errors(sql)]

analyze_transactions(sql) == [uses_transaction |-> sql.n > 0]

analyze_migration_impacts(sql) == [items |-> Take(IMPACTS, sql.n)]

analyze_control_flow(sql) ==
  [control_flow |-> [summary |-> [cyclomatic_complexity |-> 1 + 6 * sql.n]],
   errors |-> parse_errors(sql)]

analyze_data_changes(sql) ==
  [data_changes |-> [has_writes |-> sql.n > 0], errors |-> parse_errors(sql)]

analyze_error_handling(sql) == [has_try_catch |-> sql.n > 0]

\* tsql_business_rules.analyze_business_rules, lines 179-211
found_rules(n) ==
  [i \in 1..n |-> [id |-> "R" \o ToString(i), confidence |-> 60 + 10 * i,
                    template |-> "TPL_" \o ToString(i)]]

\* _map_templates: the primary template of every rule; `id` is the rule_id the
\* suggestions are sorted by after their confidence (line 190)
map_templates(rules) ==
  [i \in 1..Len(rules) |->
     [rule_id |-> rules[i].id, id |-> rules[i].id,
      template_id |-> rules[i].template,
      confidence |-> Max(75, Min(90, rules[i].confidence))]]

analyze_business_rules(sql, max_rules, max_templates) ==
  LET sorted_rules == StableSort(found_rules(sql.n), ConfidenceLess)
      rules == IF Len(sorted_rules) > max_rules
               THEN py_prefix(sorted_rules, max_rules) ELSE sorted_rules
      suggestions == StableSort(map_templates(rules), ConfidenceLess)
  IN  [rules |-> rules,
       template_suggestions |->
         IF Len(suggestions) > max_templates
         THEN py_prefix(suggestions, max_templates) ELSE suggestions,
       errors |->
         (IF Len(sorted_rules) > max_rules
          THEN <<"Rule list truncated to max_rules limit.">> ELSE <<>>)
         \o (IF Len(suggestions) > max_templates
             THEN <<"Template suggestions truncated to max_templates limit.">>
             ELSE <<>>)]

Level(n) == IF n >= 2 THEN "high" ELSE "low"

\* The scorers, from the point where their lists are capped
mapping_strategy_result(sql, max_items) ==
  LET capped == mapping_apply_max_items(Items("R", sql.n), Items("REC_", sql.n),
                                        max_items)
  IN  [summary |-> [approach |-> "rewrite_to_mybatis_sql", difficulty |-> Level(sql.n)],
       reasons |-> capped.reasons, recommendations |-> capped.recommendations,
       errors |-> scorer_sorted_unique(parse_errors(sql)) \o capped.error]

tx_boundary_result(sql, max_items) ==
  LET capped == tx_apply_max_items(Items("REC_", sql.n), Items("R", sql.n),
                                   Names("TPL_", sql.n), max_items)
  IN  [summary |-> [recommended_boundary |-> IF sql.n > 0 THEN "service_layer" ELSE "none"],
       suggestions |-> capped.suggestions, anti_patterns |-> capped.anti_patterns,
       notes |-> capped.notes, errors |-> capped.error]

mybatis_difficulty_result(sql, max_reason_items) ==
  LET capped == difficulty_apply_max_items(Items("R", sql.n), Items("REC_", sql.n),
                                           max_reason_items)
  IN  [summary |-> [difficulty_level |-> Level(sql.n), difficulty_score |-> 10 * sql.n],
       factors |-> capped.factors, recommendations |-> capped.recommendations,
       errors |-> scorer_sorted_unique(parse_errors(sql)) \o capped.error]

\* RECOMMENDATION_MAP of the analyzers: one recommendation per finding / reason
recommendations_for(items) ==
  StableSort([i \in 1..Len(items) |-> [id |-> "REC_" \o ToString(i)]], IdLessAscii)

performance_risk_result(sql, max_findings) ==
  LET capped == cap_findings(Items("PRF_", sql.n), max_findings)
  IN  [summary |-> [risk_level |-> Level(sql.n)],
       findings |-> capped.findings,
       recommendations |-> recommendations_for(capped.findings),
       errors |-> parse_errors(sql) \o capped.error]

found_dependencies(n) ==
  [key \in Range(ordered_keys) |->
     CASE key = "cross_database" ->
            [i \in 1..n |-> [database |-> "db" \o ToString(i), schema |-> "dbo",
                             object |-> "t" \o ToString(i)]]
       [] key = "linked_servers" -> [i \in 1..n |-> [server |-> "srv" \o ToString(i)]]
       [] OTHER -> <<>>]

db_dependency_result(sql, max_items) ==
  LET capped == cap_dependencies(found_dependencies(sql.n), max_items)
  IN  [summary |-> [truncated |-> capped.truncated],
       dependencies |-> capped.dependencies,
       reasons |-> Items("DEP_", sql.n),
       recommendations |-> recommendations_for(Items("DEP_", sql.n)),
       errors |-> capped.errors]


\* _call_analyzer / _call_module_function: None without SQL, without the
\* module or without the function, else what the function returns.
call_analyzer(sql, section, missing) ==
  IF sql = None \/ section \in missing THEN None
  ELSE CASE section = "references" -> analyze_references(sql)
         [] section = "transactions" -> analyze_transactions(sql)
         [] section = "migration_impacts" -> analyze_migration_impacts(sql)
         [] section = "control_flow" -> analyze_control_flow(sql)
         [] section = "data_changes" -> analyze_data_changes(sql)
         [] section = "error_handling" -> analyze_error_handling(sql)

call_module_function(sql, section, missing, max_items) ==
  IF sql = None \/ section \in missing THEN None
  ELSE CASE section = "business_rules" -> analyze_business_rules(sql, max_items, max_items)
         [] section = "mybatis_strategy" -> mapping_strategy_result(sql, max_items)
         [] section = "tx_boundary" -> tx_boundary_result(sql, max_items)
         [] section = "difficulty" -> mybatis_difficulty_result(sql, max_items)
         [] section = "perf_risk" -> performance_risk_result(sql, max_items)
         [] section = "db_dependency" -> db_dependency_result(sql, max_items)

\* Lines 70-234: every section resolved, in the order of ALL_SECTIONS
resolve_sections(sql, inputs, options, missing) ==
  LET include_sections == normalize_sections(options.include_sections)
      analyze_inputs == IF falsy(inputs) THEN None ELSE get(inputs, "analyze", None)
  IN  [section \in Range(ALL_SECTIONS) |->
         IF section \in Range(ANALYZE_SECTIONS)
         THEN resolve_section(section, include_sections,
                              extract_input(analyze_inputs, section),
                              call_analyzer(sql, section, missing))
         ELSE resolve_section(section, include_sections,
                              extract_input(inputs, section),
                              call_module_function(sql, section, missing,
                                                   options.max_items_per_section))]

\* Lines 118-125: the payloads the lists are built from
unwrapped(resolved) ==
  [section \in DOMAIN resolved |->
     IF section \in {"references", "control_flow", "data_changes"}
     THEN unwrap_section(resolved[section].value, section)
     ELSE resolved[section].value]

\* errors, in the order the entries are appended
collected_errors(resolved, analyze_inputs, capped) ==
  Concat([i \in 1..Len(ANALYZE_SECTIONS) |-> resolved[ANALYZE_SECTIONS[i]].errors])
  \o extend_errors(analyze_inputs, "errors")
  \o extend_errors(resolved["references"].value, "errors")
  \o extend_errors(resolved["control_flow"].value, "errors")
  \o extend_errors(resolved["data_changes"].value, "errors")
  \o Concat([i \in 1..Len(SCORER_SECTIONS) |-> resolved[SCORER_SECTIONS[i]].errors])
  \o Concat([i \in 1..Len(LIST_PATHS) |-> capped[LIST_PATHS[i]].errors])

capped_lists(lists, max_items) ==
  [path \in DOMAIN lists |-> cap_list(lists[path], max_items, path)]

\* The report, from the resolved sections on
spec_report(resolved, payload, lists, capped, analyze_inputs) ==
  [lists |-> [path \in DOMAIN capped |-> capped[path].items],
   summary |->
     [risk_level |-> safe_get(payload["perf_risk"], <<"summary", "risk_level">>,
                              "unknown"),
      difficulty_level |-> difficulty_level(payload["mybatis_strategy"],
                                            payload["difficulty"])],
   errors |-> sorted_unique(collected_errors(resolved, analyze_inputs, capped))]

ssAssemble(resolved, payload, lists, max_items, analyze_inputs) ==
  /\ ssSections' = [section \in DOMAIN resolved |-> resolved[section].value]
  /\ ssPreCap' = lists
  /\ ssReport' = spec_report(resolved, payload, lists,
                             capped_lists(lists, max_items), analyze_inputs)

ssResolved(resolved, inputs, options) ==
  ssAssemble(resolved, unwrapped(resolved), section_lists(unwrapped(resolved)),
             options.max_items_per_section,
             IF falsy(inputs) THEN None ELSE get(inputs, "analyze", None))

\* item["id"] (lines 239, 299-303): the items of the payload that have no
\* "id" key; reading one raises KeyError, and nothing on the way up to the
\* endpoint (mcp.py, standardize_spec) catches it.
items_without_id(payload) ==
  {item \in Range(safe_list(payload["migration_impacts"], "items"))
           \cup Range(safe_list(payload["perf_risk"], "findings"))
           \cup Range(safe_list(payload["db_dependency"], "reasons")) :
     "id" \notin DOMAIN item}

build_standardization_spec(sql, inputs, options, missing) ==
  /\ ssPc = "ready"
  /\ ssSql' = sql
  /\ ssInputs' = inputs
  /\ ssOptions' = options
  /\ ssMissing' = missing
  /\ IF items_without_id(unwrapped(resolve_sections(sql, inputs, options, missing))) # {}
     THEN /\ ssPc' = "raised"
          /\ UNCHANGED <<ssSections, ssPreCap, ssReport>>
     ELSE /\ ssPc' = "done"
          /\ ssResolved(resolve_sections(sql, inputs, options, missing), inputs, options)


\* ---- The calls of build_standardization_spec.  The request carries SQL or
\* inputs, never both (StandardizeSpecRequest.validate_payload); inputs are
\* the responses of earlier calls of the analyzers.
SpecSqlPool == {[n |-> n, parse_ok |-> ok] : n \in 0..MaxItems, ok \in BOOLEAN}

\* The body of an AnalyzeResponse (mcp.py, analyze)
analyze_response(sql) ==
  [references |-> analyze_references(sql).references,
   transactions |-> analyze_transactions(sql),
   migration_impacts |-> analyze_migration_impacts(sql),
   control_flow |-> analyze_control_flow(sql).control_flow,
   data_changes |-> analyze_data_changes(sql).data_changes,
   error_handling |-> analyze_error_handling(sql),
   errors |-> analyze_references(sql).errors \o analyze_control_flow(sql).errors
              \o analyze_data_changes(sql).errors]

\* An earlier call: of clean SQL with a cap nothing reaches, or of SQL that
\* does not parse with the cap 1
EarlierCalls ==
  {[sql |-> sql, max_items |-> IF sql.parse_ok THEN 3 * MaxItems + 1 ELSE 1] :
     sql \in SpecSqlPool}

ProvidedPool ==
  {Range(ALL_SECTIONS), Range(ANALYZE_SECTIONS), Range(SCORER_SECTIONS)}
  \cup {{section} : section \in Range(ALL_SECTIONS)}

\* inputs with the given sections, each an empty dict or taken from the call
inputs_from(provided, call, empty) ==
  LET analyze_keys == provided \cap Range(ANALYZE_SECTIONS)
      analyze == [key \in analyze_keys \cup {"errors"} |->
                    IF empty /\ key # "errors" THEN <<>>
                    ELSE analyze_response(call.sql)[key]]
  IN  [key \in (IF analyze_keys # {} THEN {"analyze"} ELSE {})
               \cup (provided \cap Range(SCORER_SECTIONS)) |->
         IF key = "analyze" THEN analyze
         ELSE IF empty THEN <<>>
         ELSE call_module_function(call.sql, key, {}, call.max_items)]

InputsPool ==
  {inputs_from(provided, call, FALSE) : provided \in ProvidedPool, call \in EarlierCalls}
  \cup {inputs_from(provided, CHOOSE call \in EarlierCalls : call.sql.n = 0 /\ call.sql.parse_ok,
                    TRUE) : provided \in ProvidedPool}

\* inputs a client wrote by hand: a section whose items carry no id
HandWrittenInputs ==
  {[perf_risk |-> [findings |-> <<[title |-> "PRF_1"]>>]],
   [db_dependency |-> [reasons |-> <<[id |-> "DEP_1"], [title |-> "DEP_2"]>>]],
   [analyze |-> [migration_impacts |-> [items |-> <<[title |-> "IMP_1"]>>],
                 errors |-> <<>>]]}

MissingPool == {{}, {"error_handling"}, {"perf_risk", "db_dependency"}}

IncludePool ==
  { NoSections, Sections(<<>>), Sections(<<"references", "perf_risk">>),
    Sections(<<" PERF_RISK ", "  ", "References", "perf_risk">>),
    Sections(<<"tags">>), Sections(<<"Error_Handling ", "business_rules">>) }

SpecOptionsPool ==
  {[include_sections |-> sections, max_items_per_section |-> max_items] :
     sections \in IncludePool, max_items \in CapPool}

ssFromSql ==
  \E sql \in SpecSqlPool, options \in SpecOptionsPool, missing \in MissingPool :
    build_standardization_spec(sql, None, options, missing)

ssFromInputs ==
  \E inputs \in InputsPool \cup HandWrittenInputs, options \in SpecOptionsPool :
    build_standardization_spec(None, inputs, options, {})

ssInit ==
  /\ ssPc = "ready"
  /\ ssSql = None
  /\ ssInputs = None
  /\ ssOptions = [include_sections |-> NoSections, max_items_per_section |-> 50]
  /\ ssMissing = {}
  /\ ssSections = <<>>
  /\ ssPreCap = <<>>
  /\ ssReport = [errors |-> <<>>]

ssIdle ==
  /\ ssPc = "idle"
  /\ ssSql = None
  /\ ssInputs = None
  /\ ssOptions = [include_sections |-> NoSections, max_items_per_section |-> 50]
  /\ ssMissing = {}
  /\ ssSections = <<>>
  /\ ssPreCap = <<>>
  /\ ssReport = [errors |-> <<>>]

(***************************************************************************)
(* SafeText: safe_sql.py.  A SQL text is a sequence of characters; "E"     *)
(* stands for a keyword the detection patterns look for (EXEC, FROM,       *)
(* BEGIN TRAN), "S" for a name, "N" for the letter of an N'...' literal.   *)
(***************************************************************************)
VARIABLES
  sqPc,        \* "input" | "done"
  sqSql,       \* the SQL text of the request
  sqStripped,  \* strip_comments_and_strings(sql)
  sqCounts     \* what the analyzers count in the text

sqVars == <<sqPc, sqSql, sqStripped, sqCounts>>

SqlChars == {"/", "*", "-", "'", "\n", "E", "S", "N"}

MinOf(S) == CHOOSE x \in S : \A y \in S : x <= y

\* BLOCK_COMMENT_PATTERN.sub(" ", sql): /\*.*?\*/ with DOTALL, from position i on
RECURSIVE sub_block_comments(_, _)
sub_block_comments(sql, i) ==
  IF i > Len(sql) THEN <<>>
  ELSE LET closes == {j \in (i + 2)..(Len(sql) - 1) : sql[j] = "*" /\ sql[j + 1] = "/"}
       IN  IF i < Len(sql) /\ sql[i] = "/" /\ sql[i + 1] = "*" /\ closes # {}
           THEN <<" ">> \o sub_block_comments(sql, MinOf(closes) + 2)
           ELSE <<sql[i]>> \o sub_block_comments(sql, i + 1)

\* LINE_COMMENT_PATTERN.sub(" ", sql): --.*?$ with MULTILINE; the newline stays
RECURSIVE sub_line_comments(_, _)
sub_line_comments(sql, i) ==
  IF i > Len(sql) THEN <<>>
  ELSE LET ends == {j \in (i + 2)..Len(sql) : sql[j] = "\n"} \cup {Len(sql) + 1}
       IN  IF i < Len(sql) /\ sql[i] = "-" /\ sql[i + 1] = "-"
           THEN <<" ">> \o sub_line_comments(sql, MinOf(ends))
           ELSE <<sql[i]>> \o sub_line_comments(sql, i + 1)

\* '(?:''|[^'])*' from the character after the opening quote: the place of the
\* closing quote, 0 when the pattern does not match.  The greedy body takes a
\* pair of quotes whole; when no closing quote follows, the match backs up to
\* the first quote of the last pair.
RECURSIVE literal_end(_, _, _)
literal_end(sql, k, last_pair) ==
  IF k > Len(sql) THEN last_pair
  ELSE IF sql[k] # "'" THEN literal_end(sql, k + 1, last_pair)
  ELSE IF k < Len(sql) /\ sql[k + 1] = "'" THEN literal_end(sql, k + 2, k)
  ELSE k

\* STRING_LITERAL_PATTERN.sub("''", sql): N'...' first, then '...'
RECURSIVE sub_string_literals(_, _)
sub_string_literals(sql, i) ==
  IF i > Len(sql) THEN <<>>
  ELSE LET open == IF i < Len(sql) /\ sql[i] = "N" /\ sql[i + 1] = "'" THEN i + 1
                   ELSE IF sql[i] = "'" THEN i
                   ELSE 0
           close == IF open = 0 THEN 0 ELSE literal_end(sql, open + 1, 0)
       IN  IF close # 0
           THEN <<"'", "'">> \o sub_string_literals(sql, close + 1)
           ELSE <<sql[i]>> \o sub_string_literals(sql, i + 1)

strip_comments_and_strings(sql) ==
  sub_string_literals(sub_line_comments(sub_block_comments(sql, 1), 1), 1)

\* len(PATTERN.findall(text)): the occurrences of the keyword
keyword_count(text) == Cardinality({i \in 1..Len(text) : text[i] = "E"})

\* _fallback_references: TABLE_PATTERN on the SQL as given, the names that
\* follow a keyword, sorted and deduplicated
fallback_references(sql) ==
  IF \E i \in 1..(Len(sql) - 1) : sql[i] = "E" /\ sql[i + 1] = "S" THEN <<"S">> ELSE <<>>

\* analyze_transactions counts in the SQL as given; build_call_graph and
\* find_callers scan the stripped text for calls; analyze_references adds
\* the names of _fallback_references to what the parser finds.
analyze_text(sql) ==
  /\ sqPc' = "done"
  /\ sqStripped' = strip_comments_and_strings(sql)
  /\ sqCounts' = [begin_count |-> keyword_count(sql),
                  call_count |-> keyword_count(strip_comments_and_strings(sql)),
                  tables |-> fallback_references(sql)]

sqType(c) ==
  /\ sqPc = "input"
  /\ Len(sqSql) < MaxSqlLen
  /\ sqSql' = Append(sqSql, c)
  /\ UNCHANGED <<sqPc, sqStripped, sqCounts>>

sqAnalyze ==
  /\ sqPc = "input"
  /\ analyze_text(sqSql)
  /\ UNCHANGED sqSql

sqInit ==
  /\ sqPc = "input"
  /\ sqSql = <<>>
  /\ sqStripped = <<>>
  /\ sqCounts = [begin_count |-> 0, call_count |-> 0, tables |-> <<>>]

sqIdle ==
  /\ sqPc = "idle"
  /\ sqSql = <<>>
  /\ sqStripped = <<>>
  /\ sqCounts = [begin_count |-> 0, call_count |-> 0, tables |-> <<>>]

(***************************************************************************)
(* Control-flow graph: src/app/services/tsql_analyzer.py                   *)
(***************************************************************************)
VARIABLES
  cfPc,      \* "input" | "done" | "idle"
  cfTokens,  \* the list _scan_control_flow_tokens finds in the SQL
  cfRuns,    \* number of runs of equal tokens the SQL is made of
  cfResult   \* the returned dict, once done

cfVars == <<cfPc, cfTokens, cfRuns, cfResult>>

CONTROL_FLOW_NODE_LIMIT == 200

CONTROL_FLOW_EDGE_LIMIT == 400

\* The tokens of _scan_control_flow_tokens, lines 817-835.
ControlTokens == {"if", "while", "try", "catch", "return", "goto"}

\* The SQL is built from runs of one repeated statement.
TokenRunLengths == {1, 99, 100}

\* Lines 880-902: START, one node per token, END.  The id f"n{index}" is
\* kept as its index.
all_nodes(tokens) ==
  [i \in 1..(Len(tokens) + 2) |->
     IF i = 1 THEN [id |-> 0, type |-> "start"]
     ELSE IF i = Len(tokens) + 2 THEN [id |-> i - 1, type |-> "end"]
     ELSE [id |-> i - 1, type |-> tokens[i - 1]]]

\* The cut of lines 904-908 without the new END node.
limit_nodes_without_end(nodes) ==
  IF Len(nodes) > CONTROL_FLOW_NODE_LIMIT
  THEN SubSeq(nodes, 1, CONTROL_FLOW_NODE_LIMIT - 1)
  ELSE nodes

\* Lines 904-908: the first CONTROL_FLOW_NODE_LIMIT - 1 nodes and a new END.
limit_nodes(nodes) ==
  IF Len(nodes) > CONTROL_FLOW_NODE_LIMIT
  THEN LET kept == SubSeq(nodes, 1, CONTROL_FLOW_NODE_LIMIT - 1)
       IN  Append(kept, [id |-> Len(kept), type |-> "end"])
  ELSE nodes

CfEdge(from, to, label) == [from |-> from, to |-> to, label |-> label]

\* Lines 911-934, one turn of the loop: the edges that leave nodes[k].
edges_from(nodes, k, end_id) ==
  LET current == nodes[k]
      next_node == nodes[k + 1]
  IN  CASE current.type = "if" ->
             << CfEdge(current.id, next_node.id, "true"),
                CfEdge(current.id, next_node.id, "false") >>
        [] current.type = "while" ->
             << CfEdge(current.id, current.id, "loop"),
                CfEdge(current.id, next_node.id, "exit") >>
        [] current.type = "try" ->
             IF next_node.type = "catch"
             THEN IF k + 2 <= Len(nodes)
                  THEN << CfEdge(current.id, next_node.id, "on_error"),
                          CfEdge(current.id, nodes[k + 2].id, "next") >>
                  ELSE << CfEdge(current.id, next_node.id, "on_error") >>
             ELSE << CfEdge(current.id, next_node.id, "next") >>
        [] current.type = "return" -> << CfEdge(current.id, end_id, "return") >>
        [] current.type = "goto" -> << CfEdge(current.id, end_id, "goto") >>
        [] OTHER -> << CfEdge(current.id, next_node.id, "next") >>

\* The loop of lines 910-934 over the nodes lo..hi, split in halves to keep
\* the evaluation shallow.
RECURSIVE all_edges(_, _, _, _)
all_edges(nodes, lo, hi, end_id) ==
  IF lo > hi THEN <<>>
  ELSE IF lo = hi THEN edges_from(nodes, lo, end_id)
  ELSE LET mid == (lo + hi) \div 2
       IN  all_edges(nodes, lo, mid, end_id) \o all_edges(nodes, mid + 1, hi, end_id)

\* _build_control_flow_graph, lines 879-941: (graph, errors)
build_control_flow_graph(tokens) ==
  LET found == all_nodes(tokens)
      nodes == limit_nodes(found)
      errors1 == IF Len(found) > CONTROL_FLOW_NODE_LIMIT
                 THEN <<"control_flow_graph_truncated: node_limit_exceeded">> ELSE <<>>
      edges == all_edges(nodes, 1, Len(nodes) - 1, nodes[Len(nodes)].id)
      over == Len(edges) > CONTROL_FLOW_EDGE_LIMIT
  IN  [nodes |-> nodes,
       edges |-> IF over THEN Take(edges, CONTROL_FLOW_EDGE_LIMIT) ELSE edges,
       errors |-> IF over
                  THEN Append(errors1, "control_flow_graph_truncated: edge_limit_exceeded")
                  ELSE errors1]

\* One more run of one repeated statement is written at the end of the SQL.
cfAddRun(token, count) ==
  /\ cfPc = "input"
  /\ cfRuns < MaxTokenRuns
  /\ cfRuns' = cfRuns + 1
  /\ cfTokens' = cfTokens \o [i \in 1..count |-> token]
  /\ UNCHANGED <<cfPc, cfResult>>

\* analyze_control_flow, lines 463-530, as far as the graph and the errors
\* go; parsed is whether sqlglot parses the SQL (lines 469-479).
cfAnalyze(parsed) ==
  /\ cfPc = "input"
  /\ cfPc' = "done"
  /\ LET built == build_control_flow_graph(cfTokens)
     IN  cfResult' = [done |-> TRUE,
                      nodes |-> built.nodes,
                      edges |-> built.edges,
                      errors |-> (IF parsed THEN <<>> ELSE <<"parse_error">>)
                                   \o built.errors]
  /\ UNCHANGED <<cfTokens, cfRuns>>

cfInit ==
  /\ cfPc = "input"
  /\ cfTokens = <<>>
  /\ cfRuns = 0
  /\ cfResult = NoResult

cfIdle ==
  /\ cfPc = "idle"
  /\ cfTokens = <<>>
  /\ cfRuns = 0
  /\ cfResult = NoResult

(***************************************************************************)
(* Transaction boundary: src/app/services/tsql_tx_boundary.py              *)
(***************************************************************************)
VARIABLES
  tbPc,      \* "input" | "done" | "idle"
  tbSql,     \* the SQL of the object, as its list of statements
  tbResult   \* the returned dict, once done

tbVars == <<tbPc, tbSql, tbResult>>

\* The statements the SQL of the model is written with.
TxStatements ==
  { "BEGIN TRY", "END TRY", "BEGIN CATCH", "END CATCH",
    "BEGIN TRAN", "COMMIT", "ROLLBACK", "UPDATE", "SELECT" }

\* len(PATTERN.findall(sql)) for the pattern of one statement
statement_count(sql, statement) == Cardinality({i \in 1..Len(sql) : sql[i] = statement})

\* analyze_transactions of tsql_analyzer.py, lines 168-228
transaction_signals(sql) ==
  LET begin_count == statement_count(sql, "BEGIN TRAN")
      commit_count == statement_count(sql, "COMMIT")
      rollback_count == statement_count(sql, "ROLLBACK")
      has_try == statement_count(sql, "BEGIN TRY") > 0
      has_catch == statement_count(sql, "BEGIN CATCH") > 0
  IN  [uses_transaction |-> begin_count > 0 \/ commit_count > 0 \/ rollback_count > 0,
       begin_count |-> begin_count,
       commit_count |-> commit_count,
       rollback_count |-> rollback_count,
       has_try_catch |-> has_try /\ has_catch]

\* analyze_data_changes(sql)["data_changes"]["has_writes"]
has_writes_in(sql) == statement_count(sql, "UPDATE") > 0

\* analyze_error_handling(sql)["has_try_catch"]: the boolean field for
\* BEGIN TRY / BEGIN CATCH of the error handling analyzer.
error_handling_try_catch(sql) ==
  statement_count(sql, "BEGIN TRY") > 0 /\ statement_count(sql, "BEGIN CATCH") > 0

\* Lines 75-154 of recommend_transaction_boundary: the summary fields the
\* decision sets.
boundary_decision(has_writes, transactions, error_handling_has_try_catch) ==
  LET uses_transaction_in_sql ==
        \/ transactions.uses_transaction
        \/ transactions.begin_count > 0
        \/ transactions.commit_count > 0
        \/ transactions.rollback_count > 0
      has_try_catch == transactions.has_try_catch \/ error_handling_has_try_catch
      initial == [recommended_boundary |-> "service_layer", transactional |-> TRUE,
                  propagation |-> "REQUIRED", read_only |-> FALSE]
      first == IF ~has_writes
               THEN [recommended_boundary |-> "none", transactional |-> FALSE,
                     propagation |-> "SUPPORTS", read_only |-> TRUE]
               ELSE initial
      rollback_in_catch == has_try_catch /\ transactions.rollback_count > 0
  IN  IF uses_transaction_in_sql /\ has_writes
      THEN [first EXCEPT !.recommended_boundary = "hybrid",
                         !.propagation = IF rollback_in_catch THEN "NOT_SUPPORTED"
                                         ELSE "REQUIRES_NEW"]
      ELSE first

\* One more statement is written at the end of the SQL.
tbWrite(statement) ==
  /\ tbPc = "input"
  /\ Len(tbSql) < MaxStatements
  /\ tbSql' = Append(tbSql, statement)
  /\ UNCHANGED <<tbPc, tbResult>>

\* recommend_transaction_boundary(sql, obj_type), lines 42-256, as far as
\* the decision goes.
tbRecommend ==
  /\ tbPc = "input"
  /\ tbPc' = "done"
  /\ tbResult' = [done |-> TRUE,
                  summary |-> boundary_decision(has_writes_in(tbSql),
                                                transaction_signals(tbSql),
                                                error_handling_try_catch(tbSql))]
  /\ UNCHANGED tbSql

tbInit ==
  /\ tbPc = "input"
  /\ tbSql = <<>>
  /\ tbResult = NoResult

tbIdle ==
  /\ tbPc = "idle"
  /\ tbSql = <<>>
  /\ tbResult = NoResult

(***************************************************************************)
(* Mapping strategy: src/app/services/tsql_mapping_strategy.py             *)
(***************************************************************************)
VARIABLES
  msPc,       \* "input" | "done" | "idle"
  msSignals,  \* what the analyzers report of the SQL written so far
  msStyle,    \* the target_style of the call
  msResult    \* the returned dict, once done

msVars == <<msPc, msSignals, msStyle, msResult>>

\* The ids of analyze_migration_impacts that recommend_mapping_strategy
\* reads, lines 93-101.
StrategyImpactIds ==
  { "IMP_DYN_SQL", "IMP_CURSOR", "IMP_TEMP_TABLE", "IMP_TABLE_VARIABLE",
    "IMP_MERGE", "IMP_IDENTITY" }

\* mcp.py line 1054: Literal["rewrite", "call_sp_first"]
TargetStyles == {"rewrite", "call_sp_first"}

NoSignals ==
  [impact_ids |-> {}, merge_count |-> 0, has_writes |-> FALSE, write_kinds |-> {},
   uses_transaction |-> FALSE, cyclomatic_complexity |-> 1]

\* Lines 93-105: risk_signals
risk_signals_of(signals) ==
  LET has_dynamic_sql == "IMP_DYN_SQL" \in signals.impact_ids
      has_cursor == "IMP_CURSOR" \in signals.impact_ids
      uses_temp_objects ==
        {"IMP_TEMP_TABLE", "IMP_TABLE_VARIABLE"} \cap signals.impact_ids # {}
      has_merge == "IMP_MERGE" \in signals.impact_ids \/ signals.merge_count > 0
  IN  has_cursor \/ has_dynamic_sql \/ uses_temp_objects \/ has_merge

\* _choose_approach that follows target_style = call_sp_first always, with
\* no way back to a rewrite for very safe objects.
choose_approach_style_forced(target_style, risk_signals, uses_transaction, has_writes, cyclomatic_complexity) ==
  LET risk_based ==
        \/ risk_signals
        \/ cyclomatic_complexity >= 12
        \/ (uses_transaction /\ has_writes /\ cyclomatic_complexity >= 8)
  IN  IF target_style = "call_sp_first" \/ risk_based
      THEN "call_sp_first" ELSE "rewrite_to_mybatis_sql"

\* _choose_approach, lines 245-263
choose_approach(target_style, risk_signals, uses_transaction, has_writes, cyclomatic_complexity) ==
  LET risk_based ==
        \/ risk_signals
        \/ cyclomatic_complexity >= 12
        \/ (uses_transaction /\ has_writes /\ cyclomatic_complexity >= 8)
      approach == IF risk_based THEN "call_sp_first" ELSE "rewrite_to_mybatis_sql"
  IN  IF target_style = "call_sp_first"
      THEN IF ~risk_signals /\ cyclomatic_complexity <= 5
           THEN "rewrite_to_mybatis_sql"
           ELSE "call_sp_first"
      ELSE approach

\* Confidences are kept in hundredths: 85 is 0.85.
\* _confidence_score with 0.85 for call_sp_first only when a risk signal is
\* present; a complexity of 12 or more alone does not raise it.
confidence_score_risk_only(approach, signals) ==
  LET risk_signals == risk_signals_of(signals)
      simple_write == /\ signals.has_writes
                      /\ Cardinality(signals.write_kinds) = 1
                      /\ ~signals.uses_transaction
                      /\ ~risk_signals
                      /\ signals.cyclomatic_complexity <= 6
      base == IF approach = "rewrite_to_mybatis_sql"
              THEN IF /\ ~signals.has_writes
                      /\ signals.cyclomatic_complexity <= 5
                      /\ ~risk_signals
                      /\ ~signals.uses_transaction
                   THEN 85
                   ELSE IF simple_write THEN 75 ELSE 65
              ELSE IF risk_signals THEN 85 ELSE 65
  IN  Max(50, Min(90, base))

\* _confidence_score, lines 306-339; read_only is not has_writes (line 90)
\* and write_kinds the list of _write_kinds (lines 349-354).
confidence_score(approach, signals) ==
  LET risk_signals == risk_signals_of(signals)
      simple_write == /\ signals.has_writes
                      /\ Cardinality(signals.write_kinds) = 1
                      /\ ~signals.uses_transaction
                      /\ ~risk_signals
                      /\ signals.cyclomatic_complexity <= 6
      base == IF approach = "rewrite_to_mybatis_sql"
              THEN IF /\ ~signals.has_writes
                      /\ signals.cyclomatic_complexity <= 5
                      /\ ~risk_signals
                      /\ ~signals.uses_transaction
                   THEN 85
                   ELSE IF simple_write THEN 75 ELSE 65
              ELSE IF risk_signals \/ signals.cyclomatic_complexity >= 12 THEN 85 ELSE 65
  IN  Max(50, Min(90, base))

\* The write statements of the model, of the six of _write_kinds.
WriteKinds == {"insert", "update", "merge"}

\* The SQL gains a construct that analyze_migration_impacts reports as id.
msImpact(id) ==
  /\ msPc = "input"
  /\ id \notin msSignals.impact_ids
  /\ msSignals' = [msSignals EXCEPT !.impact_ids = @ \cup {id}]
  /\ UNCHANGED <<msPc, msStyle, msResult>>

\* The SQL gains a write statement: analyze_data_changes reports has_writes,
\* and for a MERGE a merge count.
msWrite(op) ==
  /\ msPc = "input"
  /\ op \notin msSignals.write_kinds
  /\ msSignals' = [msSignals EXCEPT !.has_writes = TRUE,
                                    !.write_kinds = @ \cup {op},
                                    !.merge_count = IF op = "merge" THEN 1 ELSE @]
  /\ UNCHANGED <<msPc, msStyle, msResult>>

\* The SQL gains a BEGIN TRAN: analyze_transactions reports uses_transaction.
msBeginTran ==
  /\ msPc = "input"
  /\ ~msSignals.uses_transaction
  /\ msSignals' = [msSignals EXCEPT !.uses_transaction = TRUE]
  /\ UNCHANGED <<msPc, msStyle, msResult>>

\* The SQL gains an IF: analyze_control_flow reports one more branch.
msBranch ==
  /\ msPc = "input"
  /\ msSignals.cyclomatic_complexity < MaxComplexity
  /\ msSignals' = [msSignals EXCEPT !.cyclomatic_complexity = @ + 1]
  /\ UNCHANGED <<msPc, msStyle, msResult>>

\* recommend_mapping_strategy(sql, obj_type, target_style=...), lines 56-235,
\* as far as the approach goes.
msRecommend(target_style) ==
  /\ msPc = "input"
  /\ msPc' = "done"
  /\ msStyle' = target_style
  /\ LET approach == choose_approach(target_style,
                                     risk_signals_of(msSignals),
                                     msSignals.uses_transaction,
                                     msSignals.has_writes,
                                     msSignals.cyclomatic_complexity)
     IN  msResult' = [done |-> TRUE,
                      approach |-> approach,
                      confidence |-> confidence_score(approach, msSignals)]
  /\ UNCHANGED msSignals

msInit ==
  /\ msPc = "input"
  /\ msSignals = NoSignals
  /\ msStyle = "rewrite"
  /\ msResult = NoResult

msIdle ==
  /\ msPc = "idle"
  /\ msSignals = NoSignals
  /\ msStyle = "rewrite"
  /\ msResult = NoResult

(***************************************************************************)
(* Performance risk score: src/app/services/tsql_performance_risk.py       *)
(***************************************************************************)
VARIABLES
  prPc,          \* "input" | "done" | "idle"
  prDetected,    \* per severity: the number of findings detected in the SQL
  prComplexity,  \* signals["cyclomatic_complexity"] of the SQL
  prResult       \* the returned dict, once done

prVars == <<prPc, prDetected, prComplexity, prResult>>

\* SEVERITY_ORDER, lines 25-30: the severities, most severe first
Severities == <<"critical", "high", "medium", "low">>

\* SEVERITY_POINTS, lines 31-36
SEVERITY_POINTS == [critical |-> 30, high |-> 20, medium |-> 10, low |-> 5]

\* SEVERITY_CAPS, lines 37-42
SEVERITY_CAPS == [critical |-> 60, high |-> 60, medium |-> 40, low |-> 20]

\* The number of finding ids of each severity that one SQL text can yield
\* together (add_finding calls of lines 186-378; a missing WHERE is either
\* the high or the medium finding).
FindingIds == [critical |-> 1, high |-> 6, medium |-> 7, low |-> 4]

\* max_findings of the modelled calls; the default is 50 (line 140).
MaxFindingsPool == {1, 3, 50}

NoneDetected == [critical |-> 0, high |-> 0, medium |-> 0, low |-> 0]

\* Lines 380-383: the detected findings sorted by (severity order, id); a
\* finding is its severity and its rank among the ids of that severity.
RECURSIVE sorted_findings(_, _)
sorted_findings(detected, k) ==
  IF k > Len(Severities) THEN <<>>
  ELSE [i \in 1..detected[Severities[k]] |-> [severity |-> Severities[k], id |-> i]]
         \o sorted_findings(detected, k + 1)

\* _build_summary, lines 416-418: severity_counts
severity_counts(findings) ==
  [s \in Range(Severities) |->
     Cardinality({i \in 1..Len(findings) : findings[i].severity = s})]

\* The sum of line 504 over the first k severities.
RECURSIVE capped_points(_, _)
capped_points(counts, k) ==
  IF k = 0 THEN 0
  ELSE Min(counts[Severities[k]] * SEVERITY_POINTS[Severities[k]],
           SEVERITY_CAPS[Severities[k]])
         + capped_points(counts, k - 1)

\* _calculate_risk_score, lines 496-509
calculate_risk_score(counts, cyclomatic_complexity) ==
  LET score == capped_points(counts, Len(Severities))
                 + (IF cyclomatic_complexity > 8 THEN 5 ELSE 0)
  IN  Max(0, Min(100, score))

\* The SQL gains a construct that is reported as a finding of the severity.
prDetect(severity) ==
  /\ prPc = "input"
  /\ prDetected[severity] < FindingIds[severity]
  /\ prDetected' = [prDetected EXCEPT ![severity] = @ + 1]
  /\ UNCHANGED <<prPc, prComplexity, prResult>>

\* The SQL gains an IF: one more branch in the cyclomatic complexity.
prBranch ==
  /\ prPc = "input"
  /\ prComplexity < MaxComplexity
  /\ prComplexity' = prComplexity + 1
  /\ UNCHANGED <<prPc, prDetected, prResult>>

\* analyze_performance_risk(sql, max_findings=...), lines 380-401, as far as
\* the findings and the summary go.
prAnalyze(max_findings) ==
  /\ prPc = "input"
  /\ prPc' = "done"
  /\ LET capped == cap_findings(sorted_findings(prDetected, 1), max_findings)
     IN  prResult' = [done |-> TRUE,
                      findings |-> capped.findings,
                      summary |-> [risk_score |->
                                     calculate_risk_score(severity_counts(capped.findings),
                                                          prComplexity),
                                   finding_count |-> Len(capped.findings),
                                   truncated |-> capped.truncated]]
  /\ UNCHANGED <<prDetected, prComplexity>>

prInit ==
  /\ prPc = "input"
  /\ prDetected = NoneDetected
  /\ prComplexity = 1
  /\ prResult = NoResult

prIdle ==
  /\ prPc = "idle"
  /\ prDetected = NoneDetected
  /\ prComplexity = 1
  /\ prResult = NoResult

(***************************************************************************)
(* standardize/spec-with-evidence: the spec of one object, the documents   *)
(* of a local directory that match its terms, and pattern recommendations. *)
(***************************************************************************)
VARIABLES evPc, evSpec, evDocsDir, evResult

evVars == <<evPc, evSpec, evDocsDir, evResult>>

\* An error string "CODE: argument" ("CODE" alone when arg is empty).
ErrorOf(code, arg) == [code |-> code, arg |-> arg]

\* The spec payload the endpoint reads: tags, template ids, risk ids, and
\* the errors build_standardization_spec returned beside it.
EvidenceTags == {"dynamic_sql", "cursor", "uses_transaction", "linked_server", "cross_db"}

EvidenceTemplates == {"TPL_STATUS_FILTER"}

EvidenceRisks == {"PRF_SELECT_STAR"}

empty_spec_payload == [tags |-> {}, templates |-> {}, risks |-> {}, errors |-> {}]

\* A docs_dir: whether the directory is on disk, and what
\* Path(docs_dir).exists() does: answers "absent" (stat fails with ENOENT),
\* answers "exists", or raises ("error": stat fails with an OSError that
\* exists() re-raises, as for a name longer than the file system allows).  A chunk carries its
\* id, the words of its title and text, and the length of its cleaned text.
DocsDirPool ==
  { [name |-> "missing", on_disk |-> FALSE, probe |-> "absent", chunks |-> <<>>],
    [name |-> "name_too_long", on_disk |-> FALSE, probe |-> "error", chunks |-> <<>>],
    [name |-> "empty", on_disk |-> TRUE, probe |-> "exists", chunks |-> <<>>],
    [name |-> "docs", on_disk |-> TRUE, probe |-> "exists",
     chunks |-> << [doc_id |-> "doc_0001#chunk_0001",
                    words |-> {"dynamic_sql", "dynamic", "sql", "mybatis"},
                    length |-> 300] >>],
    [name |-> "notes", on_disk |-> TRUE, probe |-> "exists",
     chunks |-> << [doc_id |-> "doc_0001#chunk_0001",
                    words |-> {"cursor", "tpl_status_filter"},
                    length |-> 40] >>] }

TopKPool == {0, 5}

SnippetCharsPool == {0, 280}

\* _normalize_term on the ids the spec can hold (tags are lower case).
normalize_term(term) ==
  CASE term = "TPL_STATUS_FILTER" -> "tpl_status_filter"
    [] term = "PRF_SELECT_STAR" -> "prf_select_star"
    [] OTHER -> term

\* extract_query_terms: the set of the sorted, de-duplicated list.
extract_query_terms(spec) ==
  {normalize_term(t) : t \in spec.tags \cup spec.templates \cup spec.risks}

\* search over an index of at most one chunk: the chunk is a hit when it
\* shares a term with the query; the list is cut to max(top_k, 0).
search(chunks, query_terms, top_k) ==
  Take(SelectSeq(chunks, LAMBDA c : c.words \cap query_terms # {}), Max(top_k, 0))

\* build_snippet's second component.
snippet_truncated(length, max_chars) == ~(max_chars <= 0 \/ length <= max_chars)

NoDoc == "None"

\* _best_doc_for_keywords: the hit with at least two keywords and the most
\* of them.
RECURSIVE best_doc_for_keywords(_, _, _, _)
best_doc_for_keywords(hits, keywords, best_score, best_doc_id) ==
  IF hits = << >> THEN best_doc_id
  ELSE LET score == Cardinality(keywords \cap Head(hits).words)
       IN IF score >= 2 /\ score > best_score
          THEN best_doc_for_keywords(Tail(hits), keywords, score, Head(hits).doc_id)
          ELSE best_doc_for_keywords(Tail(hits), keywords, best_score, best_doc_id)

\* _template_matches(template_ids, "DYNAMIC") and _risk_matches(risk_ids,
\* "SELECT_STAR") on the ids above.
template_matches_dynamic(template_ids) == FALSE

risk_matches_select_star(risk_ids) == "PRF_SELECT_STAR" \in risk_ids

\* The five patterns, in the order of the final sort by id.
PatternRules ==
  << [id |-> "PAT_AVOID_SELECT_STAR", keywords |-> {"select", "columns", "explicit"}],
     [id |-> "PAT_ISOLATE_EXTERNAL_INTEGRATION",
      keywords |-> {"linked", "server", "cross", "database", "integration", "external"}],
     [id |-> "PAT_MYBATIS_DYNAMIC_TAGS",
      keywords |-> {"dynamic", "sql", "mybatis", "if", "choose", "foreach"}],
     [id |-> "PAT_REPLACE_CURSOR_SET_BASED", keywords |-> {"cursor", "set", "based", "set-based"}],
     [id |-> "PAT_SERVICE_LAYER_TX",
      keywords |-> {"transaction", "service", "boundary", "transactional"}] >>

pattern_applies(id, spec) ==
  CASE id = "PAT_MYBATIS_DYNAMIC_TAGS" ->
         "dynamic_sql" \in spec.tags \/ template_matches_dynamic(spec.templates)
    [] id = "PAT_REPLACE_CURSOR_SET_BASED" -> "cursor" \in spec.tags
    [] id = "PAT_SERVICE_LAYER_TX" -> "uses_transaction" \in spec.tags
    [] id = "PAT_ISOLATE_EXTERNAL_INTEGRATION" ->
         {"linked_server", "cross_db"} \cap spec.tags # {}
    [] id = "PAT_AVOID_SELECT_STAR" -> risk_matches_select_star(spec.risks)

build_pattern_recommendations(spec, hits) ==
  LET chosen == SelectSeq(PatternRules, LAMBDA r : pattern_applies(r.id, spec))
  IN [i \in 1..Len(chosen) |->
        [id |-> chosen[i].id,
         source_doc_id |-> best_doc_for_keywords(hits, chosen[i].keywords, 0, NoDoc)]]

\* The request body grows: a tag, a template, a risk or an error of the spec.
evTag(tag) ==
  /\ evPc = "idle"
  /\ tag \notin evSpec.tags
  /\ evSpec' = [evSpec EXCEPT !.tags = @ \cup {tag}]
  /\ UNCHANGED <<evPc, evDocsDir, evResult>>

evTerm(id) ==
  /\ evPc = "idle"
  /\ id \notin evSpec.templates \cup evSpec.risks
  /\ evSpec' = IF id \in EvidenceTemplates
               THEN [evSpec EXCEPT !.templates = @ \cup {id}]
               ELSE [evSpec EXCEPT !.risks = @ \cup {id}]
  /\ UNCHANGED <<evPc, evDocsDir, evResult>>

evParseError ==
  /\ evPc = "idle"
  /\ evSpec.errors = {}
  /\ evSpec' = [evSpec EXCEPT !.errors = {ErrorOf("parse_error", "invalid expression")}]
  /\ UNCHANGED <<evPc, evDocsDir, evResult>>

evDocs(dir) ==
  /\ evPc = "idle"
  /\ evDocsDir # dir
  /\ evDocsDir' = dir
  /\ UNCHANGED <<evPc, evSpec, evResult>>

NoResponse == [done |-> FALSE, status |-> 0, query_terms |-> {}, documents |-> <<>>,
               pattern_recommendations |-> <<>>, errors |-> {}]

\* The tail of standardize_spec_with_evidence, from the hits on: errors is
\* the set of sorted(set(errors)).
evidence_response(spec, docs_dir, chunks, query_terms, hits, max_snippet_chars) ==
  LET evidence_errors ==
        (IF docs_dir.probe = "absent" THEN {ErrorOf("DOCS_DIR_NOT_FOUND", docs_dir.name)}
         ELSE IF chunks = << >> THEN {ErrorOf("DOCS_EMPTY", docs_dir.name)}
         ELSE {ErrorOf("SNIPPET_TRUNCATED", hits[i].doc_id) :
                 i \in {j \in 1..Len(hits) :
                          snippet_truncated(hits[j].length, max_snippet_chars)}})
        \cup (IF query_terms = {} THEN {ErrorOf("QUERY_TERMS_EMPTY", "")} ELSE {})
  IN [done |-> TRUE, status |-> 200, query_terms |-> query_terms,
      documents |-> [i \in 1..Len(hits) |-> hits[i].doc_id],
      pattern_recommendations |-> build_pattern_recommendations(spec, hits),
      errors |-> spec.errors \cup evidence_errors]

\* The request ends in an unhandled exception.
ServerError == [NoResponse EXCEPT !.done = TRUE, !.status = 500]

standardize_spec_with_evidence(spec, docs_dir, top_k, max_snippet_chars) ==
  LET query_terms == extract_query_terms(spec)
      chunks == docs_dir.chunks
      hits == IF docs_dir.probe = "exists" /\ chunks # << >>
              THEN search(chunks, query_terms, top_k) ELSE << >>
  IN IF docs_dir.probe = "error" THEN ServerError
     ELSE evidence_response(spec, docs_dir, chunks, query_terms, hits, max_snippet_chars)

evRequest(top_k, max_snippet_chars) ==
  /\ evPc = "idle"
  /\ evResult' = standardize_spec_with_evidence(evSpec, evDocsDir, top_k, max_snippet_chars)
  /\ evPc' = "done"
  /\ UNCHANGED <<evSpec, evDocsDir>>

evInit ==
  /\ evPc = "idle"
  /\ evSpec = empty_spec_payload
  /\ evDocsDir \in DocsDirPool
  /\ evResult = NoResponse

evIdle ==
  /\ evPc = "idle"
  /\ evSpec = empty_spec_payload
  /\ evDocsDir = CHOOSE d \in DocsDirPool : d.name = "docs"
  /\ evResult = NoResponse

(***************************************************************************)
(* POST /mcp: the JSON-RPC adapter over streamable HTTP.                   *)
(***************************************************************************)
VARIABLES mpPc, mpEnv, mpHeader, mpPayload, mpResponse

mpVars == <<mpPc, mpEnv, mpHeader, mpPayload, mpResponse>>

DEFAULT_SUPPORTED_PROTOCOL_VERSIONS == {"2025-03-26", "2025-11-25"}

\* Values of MCP_SUPPORTED_PROTOCOL_VERSIONS: unset, one version, and a
\* value whose items are all blank.
EnvPool == {"", "2024-11-05", " , "}

\* The MCP-Protocol-Version header: not sent, sent empty, or a version.
Absent == "absent"

HeaderPool == {Absent, "", "2025-03-26", "2025-11-25", "2024-11-05", "1999-01-01"}

\* The body: not JSON, a JSON array, or an object whose id, method and
\* params are each absent or one of a few JSON values (written as text).
IdPool == {Absent, "null", "0", "7", "\"a\""}

MethodPool ==
  {Absent, "initialize", "tools/list", "tools/call", "ping",
   "notifications/initialized", "notifications/cancelled", "resources/list"}

ParamsPool ==
  {Absent, "{}", "[]", "[1]", "{name: tsql.analyze, arguments: {sql: SELECT 1}}",
   "{name: other}"}

NoPayload == [kind |-> "object", id |-> Absent, method |-> Absent, params |-> Absent]

load_supported_protocol_versions(env_value) ==
  CASE env_value = "" -> DEFAULT_SUPPORTED_PROTOCOL_VERSIONS
    [] env_value = "2024-11-05" -> {"2024-11-05"}
    [] env_value = " , " -> {}

\* _resolve_protocol_version that takes any header value.
resolve_protocol_version_any(header_value, env_value) == TRUE

\* _resolve_protocol_version: TRUE when it returns, FALSE when it raises
\* the HTTP 400.  An empty header value is falsy and takes the default.
resolve_protocol_version(header_value, env_value) ==
  IF header_value # Absent /\ header_value # ""
  THEN header_value \in load_supported_protocol_versions(env_value)
  ELSE TRUE

\* payload.get("id") and payload.get("method"): None for a missing key and
\* for null.
IsNone(value) == value \in {Absent, "null"}

\* `payload.get("params") or {}` is a dict unless params is a non-empty
\* value of another type.
params_is_dict(params) == params # "[1]"

\* _handle_tools_call: the CallToolResult, by its isError flag.
handle_tools_call(params) ==
  IF params = "{name: tsql.analyze, arguments: {sql: SELECT 1}}"
  THEN "CallToolResult" ELSE "CallToolResult isError"

\* A response: the status, and the JSON-RPC envelope of _jsonrpc_response
\* when there is one (id, result and error are "none"/0 when absent).
HttpResponse(status) == [done |-> TRUE, status |-> status, id |-> "none", result |-> "none", error |-> 0]

\* _jsonrpc_response that sets a null result beside the error.
jsonrpc_response_with_null_result(request_id, result, error) ==
  [done |-> TRUE, status |-> 200, id |-> request_id,
   result |-> IF error # 0 THEN "null" ELSE result, error |-> error]

jsonrpc_response(request_id, result, error) ==
  [done |-> TRUE, status |-> 200, id |-> request_id,
   result |-> IF error # 0 THEN "none" ELSE result, error |-> error]

mcp_post(header_value, env_value, payload) ==
  IF ~resolve_protocol_version(header_value, env_value) THEN HttpResponse(400)
  ELSE IF payload.kind # "object" THEN HttpResponse(400)
  ELSE IF payload.method = "notifications/initialized" THEN HttpResponse(202)
  ELSE IF IsNone(payload.method) \/ IsNone(payload.id) THEN HttpResponse(202)
  ELSE IF ~params_is_dict(payload.params)
       THEN jsonrpc_response(payload.id, "none", -32602)
  ELSE CASE payload.method = "initialize" ->
              jsonrpc_response(payload.id, "InitializeResult", 0)
         [] payload.method = "tools/list" -> jsonrpc_response(payload.id, "tools", 0)
         [] payload.method = "tools/call" ->
              jsonrpc_response(payload.id, handle_tools_call(payload.params), 0)
         [] payload.method = "ping" -> jsonrpc_response(payload.id, "{}", 0)
         [] OTHER -> jsonrpc_response(payload.id, "none", -32601)

\* The server's environment, and the request being composed.
mpSetEnv(env_value) ==
  /\ mpPc = "idle"
  /\ mpEnv # env_value
  /\ mpEnv' = env_value
  /\ UNCHANGED <<mpPc, mpHeader, mpPayload, mpResponse>>

mpSetHeader(header_value) ==
  /\ mpPc = "idle"
  /\ mpHeader # header_value
  /\ mpHeader' = header_value
  /\ UNCHANGED <<mpPc, mpEnv, mpPayload, mpResponse>>

mpSetBody(kind) ==
  /\ mpPc = "idle"
  /\ mpPayload = NoPayload
  /\ mpPayload' = [NoPayload EXCEPT !.kind = kind]
  /\ UNCHANGED <<mpPc, mpEnv, mpHeader, mpResponse>>

mpSetId(id) ==
  /\ mpPc = "idle"
  /\ mpPayload.kind = "object" /\ mpPayload.id = Absent
  /\ mpPayload' = [mpPayload EXCEPT !.id = id]
  /\ UNCHANGED <<mpPc, mpEnv, mpHeader, mpResponse>>

mpSetMethod(method) ==
  /\ mpPc = "idle"
  /\ mpPayload.kind = "object" /\ mpPayload.method = Absent
  /\ mpPayload' = [mpPayload EXCEPT !.method = method]
  /\ UNCHANGED <<mpPc, mpEnv, mpHeader, mpResponse>>

mpSetParams(params) ==
  /\ mpPc = "idle"
  /\ mpPayload.kind = "object" /\ mpPayload.params = Absent
  /\ mpPayload' = [mpPayload EXCEPT !.params = params]
  /\ UNCHANGED <<mpPc, mpEnv, mpHeader, mpResponse>>

mpPost ==
  /\ mpPc = "idle"
  /\ mpResponse' = mcp_post(mpHeader, mpEnv, mpPayload)
  /\ mpPc' = "done"
  /\ UNCHANGED <<mpEnv, mpHeader, mpPayload>>

NotAnswered == [done |-> FALSE, status |-> 0, id |-> "none", result |-> "none", error |-> 0]

mpInit ==
  /\ mpPc = "idle"
  /\ mpEnv = ""
  /\ mpHeader = Absent
  /\ mpPayload = NoPayload
  /\ mpResponse = NotAnswered

mpIdle ==
  /\ mpPc = "idle"
  /\ mpEnv = ""
  /\ mpHeader = Absent
  /\ mpPayload = NoPayload
  /\ mpResponse = NotAnswered

(***************************************************************************)
(* analyze_external_dependencies: the cross-database references of one     *)
(* object, analysed by a server process; a process can be restarted.       *)
(***************************************************************************)
VARIABLES exPc, exRefs, exSeed, exRuns

exVars == <<exPc, exRefs, exSeed, exRuns>>

\* Three-part names the SQL can mention; two differ in letter case only.
CrossDbRefs ==
  << [database |-> "OtherDb", schema |-> "dbo", object |-> "T"],
     [database |-> "otherdb", schema |-> "dbo", object |-> "t"],
     [database |-> "Sales", schema |-> "dbo", object |-> "Orders"] >>

\* The sort key of _build_cross_database_list: the three parts in lower
\* case, by its rank among the keys of CrossDbRefs.
lower_key_rank(item) ==
  CASE item.database \in {"OtherDb", "otherdb"} -> 1
    [] item.database = "Sales" -> 2

\* cross_database is a set of tuples of strings; the order in which a set
\* is iterated follows the hashes of its members, which the interpreter
\* salts anew for each process.  A seed stands for one salt.
HashSeeds == {0, 1, 2}

iteration_order(seed) ==
  CASE seed = 0 -> <<1, 2, 3>>
    [] seed = 1 -> <<2, 1, 3>>
    [] seed = 2 -> <<3, 2, 1>>

iterate(cross_database, seed) ==
  LET all == [i \in 1..3 |-> CrossDbRefs[iteration_order(seed)[i]]]
  IN SelectSeq(all, LAMBDA item : item \in cross_database)

build_cross_database_list(cross_database, seed) ==
  StableSort(iterate(cross_database, seed),
             LAMBDA a, b : lower_key_rank(a) < lower_key_rank(b))

\* The SQL under analysis gains a reference (before the first run).
exMention(item) ==
  /\ exPc = "idle"
  /\ exRuns = << >>
  /\ item \notin exRefs
  /\ exRefs' = exRefs \cup {item}
  /\ UNCHANGED <<exPc, exSeed, exRuns>>

\* The server process is started again.
exRestart(seed) ==
  /\ exPc = "idle"
  /\ seed # exSeed
  /\ exSeed' = seed
  /\ UNCHANGED <<exPc, exRefs, exRuns>>

\* One run of the analyzer on the SQL.
exAnalyze ==
  /\ exPc = "idle"
  /\ Len(exRuns) < 2
  /\ exRuns' = Append(exRuns, [seed |-> exSeed,
                               cross_database |-> build_cross_database_list(exRefs, exSeed)])
  /\ exPc' = IF Len(exRuns') = 2 THEN "done" ELSE "idle"
  /\ UNCHANGED <<exRefs, exSeed>>

exInit ==
  /\ exPc = "idle"
  /\ exRefs = {}
  /\ exSeed \in HashSeeds
  /\ exRuns = << >>

exIdle ==
  /\ exPc = "idle"
  /\ exRefs = {}
  /\ exSeed = 0
  /\ exRuns = << >>

(***************************************************************************)
(* Two standardize/spec-with-evidence requests processed concurrently:     *)
(* the handler of each advances step by step, in any interleaving.         *)
(***************************************************************************)
VARIABLES rqRequest, rqPc, rqTerms, rqIndex, rqHits, rqResponse

rqVars == <<rqRequest, rqPc, rqTerms, rqIndex, rqHits, rqResponse>>

Requests == {1, 2}

DocsDir(name) == CHOOSE d \in DocsDirPool : d.name = name

RequestPool ==
  { [spec |-> [empty_spec_payload EXCEPT !.tags = {"dynamic_sql"}],
     docs_dir |-> DocsDir("docs"), top_k |-> 5, max_snippet_chars |-> 280],
    [spec |-> [empty_spec_payload EXCEPT !.tags = {"cursor", "uses_transaction"}],
     docs_dir |-> DocsDir("notes"), top_k |-> 5, max_snippet_chars |-> 280],
    [spec |-> [empty_spec_payload EXCEPT !.tags = {"dynamic_sql", "cursor"}],
     docs_dir |-> DocsDir("missing"), top_k |-> 5, max_snippet_chars |-> 280],
    [spec |-> empty_spec_payload,
     docs_dir |-> DocsDir("empty"), top_k |-> 0, max_snippet_chars |-> 0],
    [spec |-> [empty_spec_payload EXCEPT !.risks = {"PRF_SELECT_STAR"}],
     docs_dir |-> DocsDir("name_too_long"), top_k |-> 5, max_snippet_chars |-> 280] }

\* Where request r keeps its index: in a local variable of its own call.
index_slot_shared(r) == 1

index_slot(r) == r

\* query_terms = extract_query_terms(spec_payload)
rqExtract(r) ==
  /\ rqPc[r] = "start"
  /\ rqTerms' = [rqTerms EXCEPT ![r] = extract_query_terms(rqRequest[r].spec)]
  /\ rqPc' = [rqPc EXCEPT ![r] = "terms"]
  /\ UNCHANGED <<rqRequest, rqIndex, rqHits, rqResponse>>

\* docs_path.exists(), load_documents and build_index
rqBuildIndex(r) ==
  /\ rqPc[r] = "terms"
  /\ LET docs_dir == rqRequest[r].docs_dir
     IN IF docs_dir.probe = "error"
        THEN /\ rqResponse' = [rqResponse EXCEPT ![r] = ServerError]
             /\ rqPc' = [rqPc EXCEPT ![r] = "done"]
             /\ UNCHANGED rqIndex
        ELSE /\ rqIndex' = [rqIndex EXCEPT ![index_slot(r)] = docs_dir.chunks]
             /\ rqPc' = [rqPc EXCEPT ![r] = "indexed"]
             /\ UNCHANGED rqResponse
  /\ UNCHANGED <<rqRequest, rqTerms, rqHits>>

\* hits = search(index, query, top_k)
rqSearch(r) ==
  /\ rqPc[r] = "indexed"
  /\ LET docs_dir == rqRequest[r].docs_dir
     IN rqHits' = [rqHits EXCEPT ![r] =
                     IF docs_dir.probe = "exists" /\ docs_dir.chunks # << >>
                     THEN search(rqIndex[index_slot(r)], rqTerms[r], rqRequest[r].top_k)
                     ELSE << >>]
  /\ rqPc' = [rqPc EXCEPT ![r] = "searched"]
  /\ UNCHANGED <<rqRequest, rqTerms, rqIndex, rqResponse>>

\* snippets, errors, pattern recommendations and the response
rqRespond(r) ==
  /\ rqPc[r] = "searched"
  /\ LET q == rqRequest[r]
     IN rqResponse' = [rqResponse EXCEPT ![r] =
          evidence_response(q.spec, q.docs_dir, q.docs_dir.chunks, rqTerms[r], rqHits[r],
                            q.max_snippet_chars)]
  /\ rqPc' = [rqPc EXCEPT ![r] = "done"]
  /\ UNCHANGED <<rqRequest, rqTerms, rqIndex, rqHits>>

rqInit ==
  /\ rqRequest \in [Requests -> RequestPool]
  /\ rqPc = [r \in Requests |-> "start"]
  /\ rqTerms = [r \in Requests |-> {}]
  /\ rqIndex = [r \in Requests |-> << >>]
  /\ rqHits = [r \in Requests |-> << >>]
  /\ rqResponse = [r \in Requests |-> NoResponse]

rqIdle ==
  /\ rqRequest = [r \in Requests |-> CHOOSE q \in RequestPool : q.docs_dir.name = "docs"]
  /\ rqPc = [r \in Requests |-> "start"]
  /\ rqTerms = [r \in Requests |-> {}]
  /\ rqIndex = [r \in Requests |-> << >>]
  /\ rqHits = [r \in Requests |-> << >>]
  /\ rqResponse = [r \in Requests |-> NoResponse]

(***************************************************************************)
(* analyze_db_dependency: the cap on dependency items.                     *)
(* src/app/services/tsql_db_dependency.py                                  *)
(***************************************************************************)
VARIABLES ddPc, ddDependencies, ddResult

ddVars == <<ddPc, ddDependencies, ddResult>>

\* The sorted lists of lines 324-331, before the cap; an item is kept as
\* its rank in its list.
NoDependencies == [key \in Range(ordered_keys) |-> << >>]

DependencyCaps == {0, 1, 2, 3, 200}

\* The SQL gains one more dependency of a category.
ddFind(key) ==
  /\ ddPc = "input"
  /\ Len(ddDependencies[key]) < MaxDependencies
  /\ ddDependencies' = [ddDependencies EXCEPT ![key] = Append(@, Len(@) + 1)]
  /\ UNCHANGED <<ddPc, ddResult>>

\* analyze_db_dependency, lines 333-339 and the summary: the cap is applied
\* only for max_items > 0.
ddAnalyze(max_items) ==
  /\ ddPc = "input"
  /\ ddPc' = "done"
  /\ LET capped == cap_dependencies(ddDependencies, max_items)
     IN  ddResult' = [done |-> TRUE, max_items |-> max_items,
                      dependencies |-> capped.dependencies,
                      truncated |-> capped.truncated,
                      errors |-> capped.errors]
  /\ UNCHANGED ddDependencies

NotAnalyzed ==
  [done |-> FALSE, max_items |-> 0, dependencies |-> NoDependencies,
   truncated |-> FALSE, errors |-> << >>]

ddInit ==
  /\ ddPc = "input"
  /\ ddDependencies = NoDependencies
  /\ ddResult = NotAnalyzed

ddIdle ==
  /\ ddPc = "idle"
  /\ ddDependencies = NoDependencies
  /\ ddResult = NotAnalyzed

(***************************************************************************)
(* Specifications: one per service.                                        *)
(***************************************************************************)
vars == <<cgVars, fcVars, scVars, ssVars, sqVars, cfVars, tbVars, msVars, prVars, evVars, mpVars, exVars, rqVars, ddVars>>

\* One service runs at a time; the others keep their idle state.
cgOnly == UNCHANGED <<fcVars, scVars, ssVars, sqVars, cfVars, tbVars, msVars, prVars, evVars, mpVars, exVars, rqVars, ddVars>>

fcOnly == UNCHANGED <<cgVars, scVars, ssVars, sqVars, cfVars, tbVars, msVars, prVars, evVars, mpVars, exVars, rqVars, ddVars>>

scOnly == UNCHANGED <<cgVars, fcVars, ssVars, sqVars, cfVars, tbVars, msVars, prVars, evVars, mpVars, exVars, rqVars, ddVars>>

ssOnly == UNCHANGED <<cgVars, fcVars, scVars, sqVars, cfVars, tbVars, msVars, prVars, evVars, mpVars, exVars, rqVars, ddVars>>

sqOnly == UNCHANGED <<cgVars, fcVars, scVars, ssVars, cfVars, tbVars, msVars, prVars, evVars, mpVars, exVars, rqVars, ddVars>>

cfOnly == UNCHANGED <<cgVars, fcVars, scVars, ssVars, sqVars, tbVars, msVars, prVars, evVars, mpVars, exVars, rqVars, ddVars>>

tbOnly == UNCHANGED <<cgVars, fcVars, scVars, ssVars, sqVars, cfVars, msVars, prVars, evVars, mpVars, exVars, rqVars, ddVars>>

msOnly == UNCHANGED <<cgVars, fcVars, scVars, ssVars, sqVars, cfVars, tbVars, prVars, evVars, mpVars, exVars, rqVars, ddVars>>

prOnly == UNCHANGED <<cgVars, fcVars, scVars, ssVars, sqVars, cfVars, tbVars, msVars, evVars, mpVars, exVars, rqVars, ddVars>>

evOnly == UNCHANGED <<cgVars, fcVars, scVars, ssVars, sqVars, cfVars, tbVars, msVars, prVars, mpVars, exVars, rqVars, ddVars>>

mpOnly == UNCHANGED <<cgVars, fcVars, scVars, ssVars, sqVars, cfVars, tbVars, msVars, prVars, evVars, exVars, rqVars, ddVars>>

exOnly == UNCHANGED <<cgVars, fcVars, scVars, ssVars, sqVars, cfVars, tbVars, msVars, prVars, evVars, mpVars, rqVars, ddVars>>

rqOnly == UNCHANGED <<cgVars, fcVars, scVars, ssVars, sqVars, cfVars, tbVars, msVars, prVars, evVars, mpVars, exVars, ddVars>>

ddOnly == UNCHANGED <<cgVars, fcVars, scVars, ssVars, sqVars, cfVars, tbVars, msVars, prVars, evVars, mpVars, exVars, rqVars>>

InitCallGraph == cgInit /\ fcIdle /\ scIdle /\ ssIdle /\ sqIdle /\ cfIdle /\ tbIdle /\ msIdle /\ prIdle
  /\ evIdle
  /\ mpIdle
  /\ exIdle
  /\ rqIdle
  /\ ddIdle

NextCallGraph ==
  \/ \E name \in NamePool, type \in ObjectTypes :
       cgIndexObject(name, type) /\ cgOnly
  \/ cgBeginScan /\ cgOnly
  \/ \E kind \in {"exec", "execute"}, name \in CallNamePool :
       cgScanExec(kind, name) /\ cgOnly
  \/ \E name \in CallNamePool, in_definition \in BOOLEAN :
       cgScanFunction(name, in_definition) /\ cgOnly
  \/ cgNextObject /\ cgOnly
  \/ \E networkx \in BOOLEAN : cgFinish(networkx) /\ cgOnly

SpecCallGraph == InitCallGraph /\ [][NextCallGraph]_vars

InitCallers == fcInit /\ cgIdle /\ scIdle /\ ssIdle /\ sqIdle /\ cfIdle /\ tbIdle /\ msIdle /\ prIdle
  /\ evIdle
  /\ mpIdle
  /\ exIdle
  /\ rqIdle
  /\ ddIdle

NextCallers ==
  \/ \E run \in RunPool : fcAddRun(run) /\ fcOnly
  \/ \E target_type \in ObjectTypes, options \in CallerOptionsPool :
       find_callers(target_type, options) /\ fcOnly

SpecCallers == InitCallers /\ [][NextCallers]_vars

InitScorerCaps == scInit /\ cgIdle /\ fcIdle /\ ssIdle /\ sqIdle /\ cfIdle /\ tbIdle /\ msIdle /\ prIdle
  /\ evIdle
  /\ mpIdle
  /\ exIdle
  /\ rqIdle
  /\ ddIdle

NextScorerCaps ==
  \/ \E reasons \in ReasonLists, analysis_errors \in AnalysisErrors, m \in CapPool :
       evaluate_reusability(reasons, analysis_errors, m) /\ scOnly
  \/ \E factors \in ItemLists("R"), recommendations \in ItemLists("REC_"),
        analysis_errors \in AnalysisErrors, m \in CapPool :
       evaluate_mybatis_difficulty(factors, recommendations, analysis_errors, m)
       /\ scOnly
  \/ \E reasons \in ItemLists("R"), recommendations \in ItemLists("REC_"),
        analysis_errors \in AnalysisErrors, m \in CapPool :
       recommend_mapping_strategy(reasons, recommendations, analysis_errors, m)
       /\ scOnly
  \/ \E suggestions \in ItemLists("REC_"), anti_patterns \in ItemLists("R"),
        notes \in ItemLists("TPL_"), m \in CapPool :
       recommend_transaction_boundary(suggestions, anti_patterns, notes, m)
       /\ scOnly
  \/ \E findings \in ItemLists("PRF_"), scan_errors \in AnalysisErrors, m \in CapPool :
       analyze_performance_risk(findings, scan_errors, m) /\ scOnly
  \/ \E dependencies \in DependencyPool, m \in CapPool :
       analyze_db_dependency(dependencies, m) /\ scOnly
SpecScorerCaps == InitScorerCaps /\ [][NextScorerCaps]_vars

InitStandardization == ssInit /\ cgIdle /\ fcIdle /\ scIdle /\ sqIdle /\ cfIdle /\ tbIdle /\ msIdle /\ prIdle
  /\ evIdle
  /\ mpIdle
  /\ exIdle
  /\ rqIdle
  /\ ddIdle

NextStandardization ==
  \/ ssFromSql /\ ssOnly
  \/ ssFromInputs /\ ssOnly

SpecStandardization == InitStandardization /\ [][NextStandardization]_vars

InitSafeText == sqInit /\ cgIdle /\ fcIdle /\ scIdle /\ ssIdle /\ cfIdle /\ tbIdle /\ msIdle /\ prIdle
  /\ evIdle
  /\ mpIdle
  /\ exIdle
  /\ rqIdle
  /\ ddIdle

NextSafeText ==
  \/ \E c \in SqlChars : sqType(c) /\ sqOnly
  \/ sqAnalyze /\ sqOnly

SpecSafeText == InitSafeText /\ [][NextSafeText]_vars

\* The two services that compare object names, one of them per behaviour
InitControlFlow == cfInit /\ cgIdle /\ fcIdle /\ scIdle /\ ssIdle /\ sqIdle /\ tbIdle /\ msIdle /\ prIdle
  /\ evIdle
  /\ mpIdle
  /\ exIdle
  /\ rqIdle
  /\ ddIdle

NextControlFlow ==
  \/ \E token \in ControlTokens, count \in TokenRunLengths :
       cfAddRun(token, count) /\ cfOnly
  \/ \E parsed \in BOOLEAN : cfAnalyze(parsed) /\ cfOnly

SpecControlFlow == InitControlFlow /\ [][NextControlFlow]_vars

InitTxBoundary ==
  tbInit /\ cgIdle /\ fcIdle /\ scIdle /\ ssIdle /\ sqIdle /\ cfIdle /\ msIdle /\ prIdle
  /\ evIdle
  /\ mpIdle
  /\ exIdle
  /\ rqIdle
  /\ ddIdle

NextTxBoundary ==
  \/ \E statement \in TxStatements : tbWrite(statement) /\ tbOnly
  \/ tbRecommend /\ tbOnly

SpecTxBoundary == InitTxBoundary /\ [][NextTxBoundary]_vars

InitMappingStrategy ==
  msInit /\ cgIdle /\ fcIdle /\ scIdle /\ ssIdle /\ sqIdle /\ cfIdle /\ tbIdle /\ prIdle
  /\ evIdle
  /\ mpIdle
  /\ exIdle
  /\ rqIdle
  /\ ddIdle

NextMappingStrategy ==
  \/ \E id \in StrategyImpactIds : msImpact(id) /\ msOnly
  \/ \E op \in WriteKinds : msWrite(op) /\ msOnly
  \/ msBeginTran /\ msOnly
  \/ msBranch /\ msOnly
  \/ \E target_style \in TargetStyles : msRecommend(target_style) /\ msOnly

SpecMappingStrategy == InitMappingStrategy /\ [][NextMappingStrategy]_vars

InitPerformanceRisk ==
  /\ prInit /\ cgIdle /\ fcIdle /\ scIdle /\ ssIdle /\ sqIdle /\ cfIdle /\ tbIdle
  /\ msIdle
  /\ evIdle
  /\ mpIdle
  /\ exIdle
  /\ rqIdle
  /\ ddIdle

NextPerformanceRisk ==
  \/ \E severity \in Range(Severities) : prDetect(severity) /\ prOnly
  \/ prBranch /\ prOnly
  \/ \E max_findings \in MaxFindingsPool : prAnalyze(max_findings) /\ prOnly

SpecPerformanceRisk == InitPerformanceRisk /\ [][NextPerformanceRisk]_vars

InitEvidence ==
  /\ evInit
  /\ cgIdle /\ fcIdle /\ scIdle /\ ssIdle
  /\ sqIdle /\ cfIdle /\ tbIdle /\ msIdle /\ prIdle
  /\ mpIdle
  /\ exIdle
  /\ rqIdle
  /\ ddIdle

NextEvidence ==
  \/ \E tag \in EvidenceTags : evTag(tag) /\ evOnly
  \/ \E id \in EvidenceTemplates \cup EvidenceRisks : evTerm(id) /\ evOnly
  \/ evParseError /\ evOnly
  \/ \E dir \in DocsDirPool : evDocs(dir) /\ evOnly
  \/ \E top_k \in TopKPool, max_snippet_chars \in SnippetCharsPool :
       evRequest(top_k, max_snippet_chars) /\ evOnly

SpecEvidence == InitEvidence /\ [][NextEvidence]_vars

InitMcpPost ==
  /\ mpInit
  /\ cgIdle /\ fcIdle /\ scIdle /\ ssIdle /\ sqIdle
  /\ cfIdle /\ tbIdle /\ msIdle /\ prIdle /\ evIdle
  /\ exIdle
  /\ rqIdle
  /\ ddIdle

NextMcpPost ==
  \/ \E env_value \in EnvPool : mpSetEnv(env_value) /\ mpOnly
  \/ \E header_value \in HeaderPool : mpSetHeader(header_value) /\ mpOnly
  \/ \E kind \in {"invalid_json", "array"} : mpSetBody(kind) /\ mpOnly
  \/ \E id \in IdPool \ {Absent} : mpSetId(id) /\ mpOnly
  \/ \E method \in MethodPool \ {Absent} : mpSetMethod(method) /\ mpOnly
  \/ \E params \in ParamsPool \ {Absent} : mpSetParams(params) /\ mpOnly
  \/ mpPost /\ mpOnly

SpecMcpPost == InitMcpPost /\ [][NextMcpPost]_vars

InitExternalDeps ==
  /\ exInit
  /\ cgIdle /\ fcIdle /\ scIdle /\ ssIdle /\ sqIdle
  /\ cfIdle /\ tbIdle /\ msIdle /\ prIdle /\ evIdle /\ mpIdle
  /\ rqIdle
  /\ ddIdle

NextExternalDeps ==
  \/ \E item \in Range(CrossDbRefs) : exMention(item) /\ exOnly
  \/ \E seed \in HashSeeds : exRestart(seed) /\ exOnly
  \/ exAnalyze /\ exOnly

SpecExternalDeps == InitExternalDeps /\ [][NextExternalDeps]_vars

InitConcurrent ==
  /\ rqInit
  /\ cgIdle /\ fcIdle /\ scIdle /\ ssIdle /\ sqIdle /\ cfIdle
  /\ tbIdle /\ msIdle /\ prIdle /\ evIdle /\ mpIdle /\ exIdle
  /\ ddIdle

NextConcurrent ==
  \/ \E r \in Requests : rqExtract(r) /\ rqOnly
  \/ \E r \in Requests : rqBuildIndex(r) /\ rqOnly
  \/ \E r \in Requests : rqSearch(r) /\ rqOnly
  \/ \E r \in Requests : rqRespond(r) /\ rqOnly

SpecConcurrent == InitConcurrent /\ [][NextConcurrent]_vars

InitDbDependency ==
  /\ ddInit
  /\ cgIdle /\ fcIdle /\ scIdle /\ ssIdle /\ sqIdle /\ cfIdle
  /\ tbIdle /\ msIdle /\ prIdle /\ evIdle /\ mpIdle /\ exIdle /\ rqIdle

NextDbDependency ==
  \/ \E key \in Range(ordered_keys) : ddFind(key) /\ ddOnly
  \/ \E max_items \in DependencyCaps : ddAnalyze(max_items) /\ ddOnly

SpecDbDependency == InitDbDependency /\ [][NextDbDependency]_vars

InitNames == InitCallGraph \/ InitCallers

NextNames == NextCallGraph \/ NextCallers

SpecNames == InitNames /\ [][NextNames]_vars

(***************************************************************************)
(* Call graph: what the claims speak about.                                *)
(***************************************************************************)
CallKinds == {"exec", "execute", "function_call"}

CalledType(kind) == IF kind = "function_call" THEN "function" ELSE "procedure"

\* The step in which the scan loop resolves the call `kind name` of the
\* current object (a skipped match resolves nothing).
CallStep(kind, name) ==
  IF kind = "function_call"
  THEN cgScanFunction(name, FALSE)
  ELSE cgScanExec(kind, name)
       /\ ~(cgOptions.ignore_dynamic_exec /\ is_dynamic_exec(name, cgOptions))

CallerId == normalize_full_name(cgObjects[cgI].name, cgOptions.case_insensitive)

CallId(name) == normalize_full_name(name, cgOptions.case_insensitive)

BaseOf(name) == split_identifier(CallId(name)).base

\* The nodes whose base name is the base name of the call.
BaseMatches(name) ==
  {id \in DOMAIN node_by_id : split_identifier(id).base = BaseOf(name)}

\* The call names a schema and equals the id of a node of the called kind.
ExactMatch(kind, name) ==
  /\ Len(CallId(name)) >= 2
  /\ CallId(name) \in DOMAIN node_by_id
  /\ node_by_id[CallId(name)].type = CalledType(kind)

AmbiguousErrors(errors) == {k \in 1..Len(errors) : errors[k].id = "AMBIGUOUS_TARGET"}

\* Number of AMBIGUOUS_TARGET entries for a caller node and a base name.
ErrorsOfNode(errors, caller_id, base) ==
  Cardinality({k \in AmbiguousErrors(errors) :
     /\ normalize_full_name(errors[k].object, cgOptions.case_insensitive) = caller_id
     /\ errors[k].base = base})

\* Number of AMBIGUOUS_TARGET entries for a caller object name and a base name.
ErrorsOfObject(errors, caller_name, base) ==
  Cardinality({k \in AmbiguousErrors(errors) :
     errors[k].object = caller_name /\ errors[k].base = base})

C2_ExactMatchFirst ==
  [][\A kind \in CallKinds, name \in CallNamePool :
       (CallStep(kind, name) /\ ~cgOptions.schema_sensitive
          /\ CallId(name) \in DOMAIN node_by_id
          /\ node_by_id[CallId(name)].type = CalledType(kind))
       => LET key == <<CallerId, CallId(name), kind>>
          IN  /\ key \in DOMAIN edge_stats'
              /\ edge_stats'[key].count =
                   1 + (IF key \in DOMAIN edge_stats THEN edge_stats[key].count ELSE 0)]_vars

HasError(errors, id) == \E k \in 1..Len(errors) : errors[k].id = id

\* The node ids the corpus yields: those of the objects that pass the filter.
YieldedIds ==
  {normalize_full_name(cgObjects[i].name, cgOptions.case_insensitive) :
     i \in {j \in 1..Len(cgObjects) : include_object(cgObjects[j], cgOptions)}} \ {<<>>}

ReturnedIds == {cgResult.nodes[i].id : i \in 1..Len(cgResult.nodes)}

\* The (from, to, kind) triples of the corpus between two returned nodes.
KeptTriples == {k \in DOMAIN edge_stats : k[1] \in ReturnedIds /\ k[2] \in ReturnedIds}

NodeCapEnforced ==
  /\ Len(cgResult.nodes) <= cgOptions.max_nodes
  /\ Cardinality(YieldedIds) > cgOptions.max_nodes
       => /\ Len(cgResult.nodes) = cgOptions.max_nodes
          /\ HasError(cgResult.errors, "NODE_LIMIT_EXCEEDED")
          /\ cgResult.summary.truncated

EdgeCapEnforced(yielded) ==
  /\ Len(cgResult.edges) <= cgOptions.max_edges
  /\ yielded > cgOptions.max_edges
       => /\ Len(cgResult.edges) = cgOptions.max_edges
          /\ HasError(cgResult.errors, "EDGE_LIMIT_EXCEEDED")
          /\ cgResult.summary.truncated

\* C3 as stated: at most max_nodes nodes and max_edges edges are returned;
\* when the corpus yields more nodes (edges) than the cap, the list is cut to
\* the cap, errors holds NODE_LIMIT_EXCEEDED (EDGE_LIMIT_EXCEEDED) and
\* summary.truncated is true.
C3_AsStated ==
  cgPc = "done" =>
    NodeCapEnforced /\ EdgeCapEnforced(Cardinality(DOMAIN edge_stats))

\* C3 (amended): the same, where the edges that count against max_edges are
\* the edges between the returned nodes.
C3_CapsEnforced ==
  cgPc = "done" =>
    NodeCapEnforced /\ EdgeCapEnforced(Cardinality(KeptTriples))

\* Both caps are exceeded in one call.
C3_Witness ==
  /\ cgPc = "done"
  /\ Cardinality(YieldedIds) > cgOptions.max_nodes
  /\ Cardinality(KeptTriples) > cgOptions.max_edges

Triple(e) == <<e.from, e.to, e.kind>>

\* C4: no two returned edges share (from, to, kind); the count of an edge is
\* the number of resolved call occurrences of its triple in the scanned
\* corpus; a signals list has at most 10 entries.
C4_EdgesDeduplicated ==
  /\ DOMAIN edge_stats = DOMAIN cgHits
  /\ \A k \in DOMAIN edge_stats :
       edge_stats[k].count = cgHits[k] /\ Len(edge_stats[k].signals) <= SIGNAL_LIMIT
  /\ cgPc = "done" =>
       /\ \A i, j \in 1..Len(cgResult.edges) :
            i # j => Triple(cgResult.edges[i]) # Triple(cgResult.edges[j])
       /\ \A i \in 1..Len(cgResult.edges) :
            /\ cgResult.edges[i].count = cgHits[Triple(cgResult.edges[i])]
            /\ Len(cgResult.edges[i].signals) <= SIGNAL_LIMIT

\* A returned edge stands for more than one call.
C4_Witness ==
  /\ cgPc = "done"
  /\ \E i \in 1..Len(cgResult.edges) : cgResult.edges[i].count >= 2

\* The pairs (a, b) such that a path of one or more arcs leads from a to b.
RECURSIVE Paths(_)
Paths(R) ==
  LET joined == R \cup {<<ab[1][1], ab[2][2]>> :
                           ab \in {x \in R \X R : x[1][2] = x[2][1]}}
  IN  IF joined = R THEN R ELSE Paths(joined)

HasDirectedCycle(edges) ==
  \E p \in Paths({<<e.from, e.to>> : e \in Range(edges)}) : p[1] = p[2]

\* C5: when cycle detection is available, summary.has_cycles is true exactly
\* when the returned edges contain a directed cycle (a self-call is one);
\* when it is not, has_cycles is false and errors holds
\* CYCLE_DETECTION_UNAVAILABLE.
C5_CyclesReported ==
  cgPc = "done" =>
    IF cgNetworkx
    THEN /\ cgResult.summary.has_cycles = HasDirectedCycle(cgResult.edges)
         /\ ~HasError(cgResult.errors, "CYCLE_DETECTION_UNAVAILABLE")
    ELSE /\ ~cgResult.summary.has_cycles
         /\ HasError(cgResult.errors, "CYCLE_DETECTION_UNAVAILABLE")

\* A self-call is reported as a cycle.
C5_Witness ==
  /\ cgPc = "done"
  /\ cgNetworkx
  /\ cgResult.summary.has_cycles
  /\ \E i \in 1..Len(cgResult.edges) : cgResult.edges[i].from = cgResult.edges[i].to

(***************************************************************************)
(* Callers finder: what the claims speak about.                            *)
(***************************************************************************)
IsPrefix(a, b) == Len(a) <= Len(b) /\ a = SubSeq(b, 1, Len(a))

SqlTotal(objects) == total_sql_length(objects, 1, Len(objects))

HasCapError ==
  \E e \in Range(fcResult.errors) : e.id \in {"object_limit_exceeded", "sql_limit_exceeded"}

\* The target itself, which the scan passes over unless include_self is set.
SkippedAsSelf(o) ==
  /\ ~fcOptions.include_self
  /\ normalize_full_name(o.name, fcOptions.case_insensitive)
       = normalize_full_name(fcTarget, fcOptions.case_insensitive)

\* C6 as stated: at most 500 objects and 1,000,000 characters of SQL are
\* scanned; the scanned objects are a prefix of the input list; whenever an
\* input object is left unscanned, errors holds an object_limit_exceeded or
\* sql_limit_exceeded entry.
C6_AsStated ==
  fcPc = "done" =>
    /\ Len(fcScanned) <= MAX_OBJECTS
    /\ SqlTotal(fcScanned) <= MAX_TOTAL_SQL_LENGTH
    /\ IsPrefix(fcScanned, fcObjects)
    /\ Len(fcScanned) < Len(fcObjects) => HasCapError

\* C6 (amended): at most 500 objects and 1,000,000 characters of SQL are
\* scanned; the scanned objects are a prefix of the input list with the
\* target itself left out when include_self is false; whenever an input
\* object is dropped from that prefix, errors holds an object_limit_exceeded
\* or sql_limit_exceeded entry.
C6_LimitsEnforced ==
  fcPc = "done" =>
    /\ Len(fcScanned) <= MAX_OBJECTS
    /\ SqlTotal(fcScanned) <= MAX_TOTAL_SQL_LENGTH
    /\ Len(fcProcess) <= MAX_OBJECTS
    /\ SqlTotal(fcProcess) <= MAX_TOTAL_SQL_LENGTH
    /\ IsPrefix(fcProcess, fcObjects)
    /\ fcScanned = SelectSeq(fcProcess, LAMBDA o : ~SkippedAsSelf(o))
    /\ Len(fcProcess) < Len(fcObjects) => HasCapError

\* Both caps are hit and the target itself is among the objects kept.
C6_Witness ==
  /\ fcPc = "done"
  /\ Len(fcObjects) > MAX_OBJECTS
  /\ \E e \in Range(fcResult.errors) : e.id = "object_limit_exceeded"
  /\ \E e \in Range(fcResult.errors) : e.id = "sql_limit_exceeded"
  /\ Len(fcScanned) < Len(fcProcess)

(***************************************************************************)
(* Scorer caps: what the claims speak about.                               *)
(***************************************************************************)
\* The truncation error strings of the scorers, for the cap that was passed.
TruncationErrors ==
  { "max_reason_items_exceeded: truncated factors and recommendations",
    "max_items_exceeded: truncated reasons and recommendations",
    "max_items_exceeded: truncated suggestions/anti_patterns/notes",
    "findings_truncated: max_findings=" \o ToString(scMax),
    "dependency_items_truncated: max_items=" \o ToString(scMax) }

TruncationErrorCount ==
  Cardinality({i \in 1..Len(scResult.errors) : scResult.errors[i] \in TruncationErrors})

\* C7: when a scorer has returned, each of its lists that was longer than the
\* cap before capping has its truncation error in the result's errors, exactly
\* once.
C7_TruncationReported ==
  scPc = "done" =>
    \A l \in DOMAIN scPreCap :
      Len(scPreCap[l]) > scMax => TruncationErrorCount = 1

(***************************************************************************)
(* Standardization spec: what the claims speak about.                      *)
(***************************************************************************)
ReportErrors == Range(ssReport.errors)

\* A cap no list of the model reaches
Uncapped == 3 * MaxItems + 1

\* The lists the analysis produces for the list sections, before any cap:
\* the lists of the call with a cap nothing reaches.
ProducedLists ==
  section_lists(unwrapped(resolve_sections(
    ssSql, ssInputs, [ssOptions EXCEPT !.max_items_per_section = Uncapped],
    ssMissing)))

\* C8: in every report every list section has at most max_items_per_section
\* items, and a section for which the analysis produced more items than the
\* cap has its SECTION_TRUNCATED: <path> entry in errors.
C8_SectionCaps ==
  ssPc = "done" =>
    \A path \in Range(LIST_PATHS) :
      /\ Len(ssReport.lists[path]) <= ssOptions.max_items_per_section
      /\ Len(ProducedLists[path]) > ssOptions.max_items_per_section
           => ("SECTION_TRUNCATED: " \o path) \in ReportErrors

\* A section is requested when include_sections is absent or empty, or when
\* one of its texts is the section name up to blanks and letter case.
Requested(section) ==
  \/ ssOptions.include_sections.is_none
  \/ ssOptions.include_sections.list = <<>>
  \/ \E i \in 1..Len(ssOptions.include_sections.list) :
       strip_lower(ssOptions.include_sections.list[i]) = section

InputGiven(section) ==
  /\ ssInputs # None
  /\ IF section \in Range(ANALYZE_SECTIONS)
     THEN "analyze" \in DOMAIN ssInputs /\ section \in DOMAIN ssInputs["analyze"]
     ELSE section \in DOMAIN ssInputs

Computable(section) == ssSql # None /\ section \notin ssMissing

Available(section) == InputGiven(section) \/ Computable(section)

NotAvailableReported(section) ==
  ("SECTION_NOT_AVAILABLE: " \o section) \in ReportErrors

\* C9 as stated: a section that is missing from the assembly, requested or
\* not, has its SECTION_NOT_AVAILABLE entry in errors, and a section with an
\* input or a computed value has none.
C9_AsStated ==
  ssPc = "done" =>
    \A section \in Range(ALL_SECTIONS) :
      NotAvailableReported(section) <=> ~Available(section)

\* C9, amended: errors has SECTION_NOT_AVAILABLE: <section> exactly for the
\* requested sections that have neither an input nor a computed value.
C9_RequestedUnavailable ==
  ssPc = "done" =>
    \A section \in Range(ALL_SECTIONS) :
      NotAvailableReported(section) <=> (Requested(section) /\ ~Available(section))

\* A report for named sections, one of them written with blanks and capitals,
\* unavailable and reported, while others are available.
C9_Witness ==
  /\ ssPc = "done"
  /\ ~ssOptions.include_sections.is_none
  /\ " PERF_RISK " \in Range(ssOptions.include_sections.list)
  /\ ~Available("perf_risk")
  /\ NotAvailableReported("perf_risk")
  /\ Available("references")

SectionErrors(section) ==
  IF falsy(ssSections[section]) THEN {}
  ELSE Range(get(ssSections[section], "errors", <<>>))

\* C10: the errors of the report are in ASCII order without duplicates, and
\* every error entry of every section payload that went into the report is
\* among them.
C10_ErrorsMerged ==
  ssPc = "done" =>
    /\ \A i \in 1..(Len(ssReport.errors) - 1) :
         AsciiLess(ssReport.errors[i], ssReport.errors[i + 1])
    /\ \A section \in Range(ALL_SECTIONS) : SectionErrors(section) \subseteq ReportErrors

\* C11: no operation lets an exception escape its top-level call: standardize/spec
\* returns a report, with the failure as an entry of errors, for every request.
C11_NoExceptionEscapes == ssPc # "raised"

(***************************************************************************)
(* SafeText: what the claims speak about.  T-SQL reads a text from left to *)
(* right: outside a comment and a literal, -- opens a comment that ends    *)
(* with the line, /* one that ends with */, a quote a literal that ends    *)
(* with a quote that is not doubled.                                       *)
(***************************************************************************)
\* The kind of every character from position i on, read in the given mode.
RECURSIVE Lexed(_, _, _)
Lexed(sql, i, mode) ==
  IF i > Len(sql) THEN <<>>
  ELSE LET two(a, b) == i < Len(sql) /\ sql[i] = a /\ sql[i + 1] = b
       IN  CASE mode = "code" /\ two("-", "-") ->
                  <<"comment", "comment">> \o Lexed(sql, i + 2, "line")
             [] mode = "code" /\ two("/", "*") ->
                  <<"comment", "comment">> \o Lexed(sql, i + 2, "block")
             [] mode = "code" /\ sql[i] = "'" -> <<"literal">> \o Lexed(sql, i + 1, "literal")
             [] mode = "line" /\ sql[i] = "\n" -> <<"code">> \o Lexed(sql, i + 1, "code")
             [] mode = "block" /\ two("*", "/") ->
                  <<"comment", "comment">> \o Lexed(sql, i + 2, "code")
             [] mode = "literal" /\ two("'", "'") ->
                  <<"literal", "literal">> \o Lexed(sql, i + 2, "literal")
             [] mode = "literal" /\ sql[i] = "'" -> <<"literal">> \o Lexed(sql, i + 1, "code")
             [] OTHER -> <<(IF mode \in {"line", "block"} THEN "comment" ELSE mode)>>
                         \o Lexed(sql, i + 1, mode)

\* How the end of the text is read: the mode, and the place of the opener of
\* the comment or literal that is open there.
RECURSIVE Scan(_, _, _, _)
Scan(sql, i, mode, opener) ==
  IF i > Len(sql) THEN [mode |-> mode, opener |-> opener]
  ELSE LET two(a, b) == i < Len(sql) /\ sql[i] = a /\ sql[i + 1] = b
       IN  CASE mode = "code" /\ two("-", "-") -> Scan(sql, i + 2, "line", i)
             [] mode = "code" /\ two("/", "*") -> Scan(sql, i + 2, "block", i)
             [] mode = "code" /\ sql[i] = "'" -> Scan(sql, i + 1, "literal", i)
             [] mode = "line" /\ sql[i] = "\n" -> Scan(sql, i + 1, "code", 0)
             [] mode = "block" /\ two("*", "/") -> Scan(sql, i + 2, "code", 0)
             [] mode = "literal" /\ two("'", "'") -> Scan(sql, i + 2, "literal", opener)
             [] mode = "literal" /\ sql[i] = "'" -> Scan(sql, i + 1, "code", 0)
             [] OTHER -> Scan(sql, i + 1, mode, opener)

\* The keywords outside every comment and literal.
CodeKeywords(sql) ==
  Cardinality({i \in 1..Len(sql) : sql[i] = "E" /\ Lexed(sql, 1, "code")[i] = "code"})

\* C12: text inside a comment or a string literal never triggers a detection:
\* every analyzer counts the keywords outside comments and literals, and no
\* others.
C12_CommentStringImmunity ==
  sqPc = "done" =>
    /\ sqCounts.begin_count = CodeKeywords(sqSql)
    /\ sqCounts.call_count = CodeKeywords(sqSql)

AtEnd(sql) == Scan(sql, 1, "code", 0)

\* C13: an unterminated block comment or string literal is blanked from its
\* opening delimiter to the end of the input: the stripped text is the
\* stripped text before the opener, then the blank of the opener's kind.
C13_UnterminatedConsumed ==
  (sqPc = "done" /\ AtEnd(sqSql).mode \in {"block", "literal"}) =>
    sqStripped = strip_comments_and_strings(SubSeq(sqSql, 1, AtEnd(sqSql).opener - 1))
                 \o (IF AtEnd(sqSql).mode = "block" THEN <<" ">> ELSE <<"'", "'">>)

\* C14: a sentinel embedded in a string literal of the SQL never occurs in
\* the response: a name that the text holds inside literals only is no entry
\* of the references.
C14_NoSqlEcho ==
  (sqPc = "done" /\ \A i \in 1..Len(sqSql) :
                      sqSql[i] = "S" => Lexed(sqSql, 1, "code")[i] = "literal")
    => "S" \notin Range(sqCounts.tables)

(***************************************************************************)
(* Names: what the claims speak about.                                     *)
(***************************************************************************)
\* NormalizedName of the spec: the parts without their quoting, lowered when
\* names are compared without case.
NormalizedName(name, case_insensitive) ==
  [i \in 1..Len(name) |-> IF case_insensitive THEN Lower(name[i].s) ELSE name[i].s]

AllNames == NamePool \cup CallNamePool

\* The objects of the corpus that pass the type filter
IncludedNames ==
  {NormalizedName(cgObjects[i].name, cgOptions.case_insensitive) :
     i \in {k \in 1..Len(cgObjects) : include_object(cgObjects[k], cgOptions)}}

\* Until the caps of lines 127-150 drop nodes, every name has its node.
OneNodePerName ==
  LET ids == {node_entries[k].id : k \in 1..Len(node_entries)}
  IN  /\ Len(node_entries) = Cardinality(ids)
      /\ ids \subseteq IncludedNames
      /\ cgPc # "done" => ids = IncludedNames

SameCallTarget ==
  \A a \in AllNames, b \in AllNames, caller \in NamePool, type \in ObjectTypes :
    NormalizedName(a, cgOptions.case_insensitive)
      = NormalizedName(b, cgOptions.case_insensitive)
    => LET ra == resolve_target(a, base_name_index, node_by_id, cgOptions, type,
                                ambiguous_calls, caller)
           rb == resolve_target(b, base_name_index, node_by_id, cgOptions, type,
                                ambiguous_calls, caller)
       IN  ra.target = rb.target /\ ra.ambiguous = rb.ambiguous /\ ra.error = rb.error

SameSelf ==
  fcPc = "done" =>
    \A x \in Range(fcProcess), y \in Range(fcProcess) :
      NormalizedName(x.name, fcOptions.case_insensitive)
        = NormalizedName(y.name, fcOptions.case_insensitive)
      => (\E i \in 1..Len(fcScanned) : fcScanned[i].name = x.name)
         <=> (\E i \in 1..Len(fcScanned) : fcScanned[i].name = y.name)

\* C15: two object names with equal NormalizedName are one object for the
\* call graph and for callers: the objects of the corpus get one node per
\* NormalizedName, two names with equal NormalizedName resolve to the same
\* call target, and find_callers passes over both as the target or over
\* neither.
C15_NormalizedNamesEqual ==
  /\ cgPc # "idle" => (OneNodePerName /\ SameCallTarget)
  /\ SameSelf

\* The corpus holds two spellings of one name, they share a node, and a call
\* was resolved to it.
C15_Witness ==
  /\ cgPc = "done"
  /\ Len(cgObjects) = 2
  /\ cgObjects[1].name # cgObjects[2].name
  /\ NormalizedName(cgObjects[1].name, cgOptions.case_insensitive)
       = NormalizedName(cgObjects[2].name, cgOptions.case_insensitive)
  /\ Len(node_entries) = 1
  /\ \E key \in DOMAIN edge_stats : key[2] = node_entries[1].id

\* C16: with include_self=false no object whose normalized name equals the
\* target's normalized name (both taken with the case option of the call) is
\* listed as a caller, even when its SQL calls the target.
C16_SelfExcluded ==
  (fcPc = "done" /\ ~fcOptions.include_self) =>
    \A i \in 1..Len(fcResult.callers) :
      NormalizedName(fcResult.callers[i].name, fcOptions.case_insensitive)
        # NormalizedName(fcTarget, fcOptions.case_insensitive)

\* The target, spelled another way, calls itself and is left out.
C16_Witness ==
  /\ fcPc = "done"
  /\ ~fcOptions.include_self
  /\ \E o \in Range(fcProcess) :
       /\ o.name # fcTarget
       /\ NormalizedName(o.name, fcOptions.case_insensitive)
            = NormalizedName(fcTarget, fcOptions.case_insensitive)
       /\ Len(find_matches(o.sql, fcResult.target.type)) > 0
  /\ Len(fcResult.callers) > 0

(***************************************************************************)
(* C17: the order of the cross-object outputs.                             *)
(***************************************************************************)
\* Strictly ascending: every earlier element is Less than every later one.
Ascending(s, Less(_, _)) == \A i, j \in 1..Len(s) : i < j => Less(s[i], s[j])

\* C17, the call graph part: in every build_call_graph result the nodes are
\* in ascending order of id, the edges in ascending order of (from, to, kind)
\* and the roots and leaves in ascending ASCII order; the keys are unique, so
\* the order is the only one the keys allow.
C17_CallGraphOrder ==
  cgPc = "done" =>
    /\ Ascending(cgResult.nodes, NodeLess)
    /\ Ascending(cgResult.edges, EdgeLess)
    /\ Ascending(cgResult.topology.roots, IdLess)
    /\ Ascending(cgResult.topology.leaves, IdLess)

C17_CallGraphWitness ==
  /\ cgPc = "done"
  /\ Len(cgResult.nodes) >= 2
  /\ Len(cgResult.edges) >= 2
  /\ \E i, j \in 1..Len(cgObjects) :
        i < j /\ IdLess(normalize_full_name(cgObjects[j].name, cgOptions.case_insensitive),
                        normalize_full_name(cgObjects[i].name, cgOptions.case_insensitive))

\* The scanned objects that call the target, in input order.
Calling ==
  SelectSeq(fcScanned, LAMBDA o : Len(find_matches(o.sql, fcResult.target.type)) > 0)

CallingEntry(i) ==
  caller_entry(Calling[i], find_matches(Calling[i].sql, fcResult.target.type))

Swapped(s, i, j) == [s EXCEPT ![i] = s[j], ![j] = s[i]]

\* C17: in every find_callers result no caller comes after one with a larger
\* key (-call_count, name.lower()), and the list is the same whichever way
\* round two of the calling objects are given in the input; with
\* C17_CallGraphOrder for the call graph.
C17_StableOrder ==
  /\ C17_CallGraphOrder
  /\ fcPc = "done" =>
       /\ \A i, j \in 1..Len(fcResult.callers) :
             i < j => ~CallerLess(fcResult.callers[j], fcResult.callers[i])
       /\ \A i, j \in 1..Len(Calling) :
             sorted_callers(Swapped(Calling, i, j), fcResult.target.type)
               = fcResult.callers

\* What the code does keep: the callers are sorted by the key, and callers
\* with equal keys stay in input order.
C17_SortedByKey ==
  fcPc = "done" =>
    /\ \A i, j \in 1..Len(fcResult.callers) :
          i < j => ~CallerLess(fcResult.callers[j], fcResult.callers[i])
    /\ \A i, j \in 1..Len(Calling) :
          (i < j /\ Calling[i].name # Calling[j].name
                 /\ ~CallerLess(CallingEntry(i), CallingEntry(j))
                 /\ ~CallerLess(CallingEntry(j), CallingEntry(i)))
            => \E a, b \in 1..Len(fcResult.callers) :
                  /\ a < b
                  /\ fcResult.callers[a].name = Calling[i].name
                  /\ fcResult.callers[b].name = Calling[j].name

(***************************************************************************)
(* C18: the caps of the control-flow graph.                                *)
(***************************************************************************)
\* The graph of the SQL before anything is cut: every node, and the edges
\* between them.
UncutNodes == all_nodes(cfTokens)

UncutEdges == all_edges(UncutNodes, 1, Len(UncutNodes) - 1, UncutNodes[Len(UncutNodes)].id)

\* What holds of the two caps: the returned graph has at most 200 nodes and
\* at most 400 edges, and a graph of more than 200 nodes is cut to 200 and
\* reported as node_limit_exceeded.
C18_WithinCaps ==
  cfPc = "done" =>
    /\ Len(cfResult.nodes) <= CONTROL_FLOW_NODE_LIMIT
    /\ Len(cfResult.edges) <= CONTROL_FLOW_EDGE_LIMIT
    /\ Len(UncutNodes) > CONTROL_FLOW_NODE_LIMIT =>
         /\ Len(cfResult.nodes) = CONTROL_FLOW_NODE_LIMIT
         /\ "control_flow_graph_truncated: node_limit_exceeded" \in Range(cfResult.errors)

C18_WithinCapsWitness ==
  /\ cfPc = "done"
  /\ Len(UncutNodes) > CONTROL_FLOW_NODE_LIMIT
  /\ Len(cfResult.edges) > CONTROL_FLOW_NODE_LIMIT

\* C18: the graph analyze_control_flow returns has at most 200 nodes and at
\* most 400 edges; when the graph of the SQL has more than 200 nodes, errors
\* holds control_flow_graph_truncated: node_limit_exceeded, and when it has
\* more than 400 edges, errors holds
\* control_flow_graph_truncated: edge_limit_exceeded.
C18_ControlFlowCaps ==
  /\ C18_WithinCaps
  /\ cfPc = "done" =>
       (Len(UncutEdges) > CONTROL_FLOW_EDGE_LIMIT =>
          "control_flow_graph_truncated: edge_limit_exceeded" \in Range(cfResult.errors))

\* The edge cap is never met: no returned error list names it.
C18_EdgeLimitNeverReported ==
  cfPc = "done" =>
    "control_flow_graph_truncated: edge_limit_exceeded" \notin Range(cfResult.errors)

(***************************************************************************)
(* C19: the transaction boundary decision.                                 *)
(***************************************************************************)
Writes == \E i \in 1..Len(tbSql) : tbSql[i] = "UPDATE"

ManagesTransaction ==
  \E i \in 1..Len(tbSql) : tbSql[i] \in {"BEGIN TRAN", "COMMIT", "ROLLBACK"}

\* A ROLLBACK stands in a CATCH block: after a BEGIN CATCH with no END CATCH
\* in between.
RollbackInCatch ==
  \E j, i \in 1..Len(tbSql) :
     /\ j < i
     /\ tbSql[j] = "BEGIN CATCH"
     /\ tbSql[i] = "ROLLBACK"
     /\ \A k \in (j + 1)..(i - 1) : tbSql[k] # "END CATCH"

\* The decision, given whether the object counts as rolling back in a CATCH.
Decided(summary, rollback_in_catch) ==
  IF ~Writes
  THEN /\ summary.recommended_boundary = "none"
       /\ summary.transactional = FALSE
       /\ summary.propagation = "SUPPORTS"
       /\ summary.read_only = TRUE
  ELSE IF ~ManagesTransaction
  THEN /\ summary.recommended_boundary = "service_layer"
       /\ summary.propagation = "REQUIRED"
  ELSE /\ summary.recommended_boundary = "hybrid"
       /\ summary.propagation = IF rollback_in_catch THEN "NOT_SUPPORTED"
                                ELSE "REQUIRES_NEW"

\* C19: without writes the boundary is none, not transactional, SUPPORTS and
\* read-only; with writes and no transaction managed by the SQL it is
\* service_layer with REQUIRED; otherwise it is hybrid, with NOT_SUPPORTED
\* when a ROLLBACK stands in a CATCH block and REQUIRES_NEW when none does.
C19_BoundaryDecision == tbPc = "done" => Decided(tbResult.summary, RollbackInCatch)

\* What the code decides by: a ROLLBACK anywhere in an object that has a
\* BEGIN TRY and a BEGIN CATCH anywhere.
C19_DecisionByCounts ==
  tbPc = "done" =>
    Decided(tbResult.summary,
            /\ \E i \in 1..Len(tbSql) : tbSql[i] = "ROLLBACK"
            /\ \E i \in 1..Len(tbSql) : tbSql[i] = "BEGIN TRY"
            /\ \E i \in 1..Len(tbSql) : tbSql[i] = "BEGIN CATCH")

C19_DecisionByCountsWitness ==
  /\ tbPc = "done"
  /\ Writes
  /\ RollbackInCatch
  /\ tbResult.summary.propagation = "NOT_SUPPORTED"

(***************************************************************************)
(* C20: the approach of the mapping strategy.                              *)
(***************************************************************************)
\* One of cursor, dynamic SQL, temp objects, merge is reported of the SQL.
RiskPresent ==
  \/ msSignals.impact_ids
       \cap {"IMP_CURSOR", "IMP_DYN_SQL", "IMP_TEMP_TABLE", "IMP_TABLE_VARIABLE", "IMP_MERGE"}
       # {}
  \/ msSignals.merge_count > 0

\* C20: without the target_style override the approach is call_sp_first
\* exactly when a risk signal is present, or the cyclomatic complexity is at
\* least 12, or the object uses a transaction, writes and has a complexity of
\* at least 8, and rewrite_to_mybatis_sql otherwise; with
\* target_style = call_sp_first the approach is call_sp_first unless no risk
\* signal is present and the complexity is at most 5.
C20_ApproachChosen ==
  msPc = "done" =>
    LET cyc == msSignals.cyclomatic_complexity
    IN  IF msStyle = "call_sp_first"
        THEN msResult.approach =
               IF ~RiskPresent /\ cyc <= 5 THEN "rewrite_to_mybatis_sql" ELSE "call_sp_first"
        ELSE msResult.approach =
               IF \/ RiskPresent
                  \/ cyc >= 12
                  \/ (msSignals.uses_transaction /\ msSignals.has_writes /\ cyc >= 8)
               THEN "call_sp_first" ELSE "rewrite_to_mybatis_sql"

\* A very safe object is rewritten although call_sp_first was asked for.
C20_Witness ==
  /\ msPc = "done"
  /\ msStyle = "call_sp_first"
  /\ ~RiskPresent
  /\ msSignals.cyclomatic_complexity = 5
  /\ msSignals.uses_transaction
  /\ msSignals.has_writes
  /\ msResult.approach = "rewrite_to_mybatis_sql"

(***************************************************************************)
(* C21: the confidence of the mapping strategy, in hundredths.             *)
(***************************************************************************)
\* Read-only and simple: no write, no transaction, no risk signal and a
\* complexity of at most 5.
ReadOnlySimple ==
  /\ ~msSignals.has_writes
  /\ ~msSignals.uses_transaction
  /\ ~RiskPresent
  /\ msSignals.cyclomatic_complexity <= 5

\* A simple single write: one kind of write, no transaction, no risk signal
\* and a complexity of at most 6.
SimpleSingleWrite ==
  /\ Cardinality(msSignals.write_kinds) = 1
  /\ ~msSignals.uses_transaction
  /\ ~RiskPresent
  /\ msSignals.cyclomatic_complexity <= 6

RewriteConfidence ==
  IF ReadOnlySimple THEN 85 ELSE IF SimpleSingleWrite THEN 75 ELSE 65

\* C21 as stated: for rewrite_to_mybatis_sql the confidence is 0.85 for a
\* read-only simple object, 0.75 for a simple single write and 0.65
\* otherwise; for call_sp_first it is 0.85 when a risk signal is present and
\* 0.65 otherwise; it always lies in [0.5, 0.9].
C21_AsStated ==
  msPc = "done" =>
    /\ msResult.confidence >= 50 /\ msResult.confidence <= 90
    /\ msResult.confidence =
         IF msResult.approach = "rewrite_to_mybatis_sql" THEN RewriteConfidence
         ELSE IF RiskPresent THEN 85 ELSE 65

\* C21, amended: as stated, except that for call_sp_first the confidence is
\* 0.85 when a risk signal is present or the cyclomatic complexity is at
\* least 12, and 0.65 otherwise.
C21_Confidence ==
  msPc = "done" =>
    /\ msResult.confidence >= 50 /\ msResult.confidence <= 90
    /\ msResult.confidence =
         IF msResult.approach = "rewrite_to_mybatis_sql" THEN RewriteConfidence
         ELSE IF RiskPresent \/ msSignals.cyclomatic_complexity >= 12 THEN 85 ELSE 65

\* call_sp_first chosen for complexity alone, with the high confidence.
C21_Witness ==
  /\ msPc = "done"
  /\ msResult.approach = "call_sp_first"
  /\ ~RiskPresent
  /\ msSignals.cyclomatic_complexity >= 12
  /\ msResult.confidence = 85

(***************************************************************************)
(* C22: the risk score of analyze_performance_risk.                        *)
(***************************************************************************)
\* min(100, sum over severities of min(count x points, cap) + 5 if the
\* cyclomatic complexity is above 8) for the given counts.
ScoreOf(counts) ==
  Min(100, Min(counts["critical"] * 30, 60) + Min(counts["high"] * 20, 60)
             + Min(counts["medium"] * 10, 40) + Min(counts["low"] * 5, 20)
             + (IF prComplexity > 8 THEN 5 ELSE 0))

\* C22: risk_score is min(100, sum over severities of min(count x points,
\* cap) + (5 if complexity > 8 else 0)) with points 30/20/10/5 and caps
\* 60/60/40/20, count being the number of findings of the severity detected
\* in the SQL.
C22_RiskScore == prPc = "done" => prResult.summary.risk_score = ScoreOf(prDetected)

\* What the code computes: the same sum over the findings it returns.
C22_ScoreOfReturned ==
  prPc = "done" =>
    prResult.summary.risk_score =
      ScoreOf([s \in Range(Severities) |->
                 Cardinality({i \in 1..Len(prResult.findings) :
                                prResult.findings[i].severity = s})])

C22_ScoreOfReturnedWitness ==
  /\ prPc = "done"
  /\ prResult.summary.truncated
  /\ prDetected["high"] >= 4
  /\ prResult.summary.risk_score < ScoreOf(prDetected)

(***************************************************************************)
(* C23: a docs directory that does not exist.                              *)
(***************************************************************************)
\* The ids of the patterns the spec's tags and risks call for.
PatternsOfSpec == {r.id : r \in {q \in Range(PatternRules) : pattern_applies(q.id, evSpec)}}

Degraded ==
  /\ evResult.status = 200
  /\ evResult.documents = << >>
  /\ \E e \in evResult.errors : e.code = "DOCS_DIR_NOT_FOUND"
  /\ {r.id : r \in Range(evResult.pattern_recommendations)} = PatternsOfSpec

\* C23: when docs_dir names a directory that does not exist, the response
\* succeeds with no evidence documents, an error starting with
\* DOCS_DIR_NOT_FOUND, and the pattern recommendations of the spec's tags.
C23_MissingDocsDir == (evResult.done /\ ~evDocsDir.on_disk) => Degraded

\* The same for the missing directories whose existence test answers.
C23_MissingDocsDirProbed == (evResult.done /\ evDocsDir.probe = "absent") => Degraded

C23_MissingDocsDirProbedWitness ==
  /\ evResult.done /\ evDocsDir.probe = "absent"
  /\ Len(evResult.pattern_recommendations) >= 2

(***************************************************************************)
(* C24, C25: the answers of POST /mcp.                                     *)
(***************************************************************************)
Supported == load_supported_protocol_versions(mpEnv)

Rejected == mpResponse.status = 400 /\ mpResponse.id = "none" /\ mpResponse.result = "none"

\* C24 as stated: a request whose MCP-Protocol-Version header has a value
\* outside the supported set is rejected with HTTP 400, whatever its body.
C24_AsStated == (mpResponse.done /\ mpHeader # Absent /\ mpHeader \notin Supported) => Rejected

\* C24: a request whose MCP-Protocol-Version header has a non-empty value
\* outside the supported set is rejected with HTTP 400 whatever its body
\* is (not JSON, a notification, a request), and gets no result.
C24_UnsupportedVersion ==
  (mpResponse.done /\ mpHeader \notin {Absent, ""} /\ mpHeader \notin Supported) => Rejected

\* An unsupported version on a well-formed ping request.
C24_Witness ==
  /\ mpResponse.done /\ mpHeader = "1999-01-01"
  /\ mpPayload.method = "ping" /\ mpPayload.id = "7"

\* An unsupported version on a notification.
C24_NotificationWitness ==
  /\ mpResponse.done /\ mpHeader = "2025-03-26" /\ mpEnv = "2024-11-05"
  /\ mpPayload.method = "notifications/initialized" /\ mpPayload.id = Absent

Acceptable == mpPayload.kind = "object" /\ (mpHeader \in {Absent, ""} \/ mpHeader \in Supported)

Accepted202 == mpResponse.status = 202 /\ mpResponse.id = "none" /\ mpResponse.result = "none"

Envelope ==
  /\ mpResponse.status = 200
  /\ mpResponse.id = mpPayload.id
  /\ (mpResponse.result = "none") # (mpResponse.error = 0)

\* C25 as stated: a message without an id gets 202 and no envelope; a
\* message with an id and a method gets 200 and an envelope with its id
\* and exactly one of result and error.
C25_AsStated ==
  (mpResponse.done /\ Acceptable) =>
    /\ IsNone(mpPayload.id) => Accepted202
    /\ (~IsNone(mpPayload.id) /\ ~IsNone(mpPayload.method)) => Envelope

\* C25: a message without an id gets 202 and no envelope; a message with
\* an id and a method other than notifications/initialized gets 200 and an
\* envelope with its id and exactly one of result and error.
C25_Answers ==
  (mpResponse.done /\ Acceptable) =>
    /\ IsNone(mpPayload.id) => Accepted202
    /\ (/\ ~IsNone(mpPayload.id) /\ ~IsNone(mpPayload.method)
        /\ mpPayload.method # "notifications/initialized") => Envelope

\* A request answered with an error envelope.
C25_Witness ==
  /\ mpResponse.done /\ Acceptable
  /\ mpPayload.id = "0" /\ mpPayload.method = "tools/call" /\ mpPayload.params = "[1]"
  /\ mpResponse.error = -32602

\* A notification other than notifications/initialized.
C25_NotificationWitness ==
  /\ mpResponse.done /\ Acceptable
  /\ mpPayload.id = Absent /\ mpPayload.method = "notifications/cancelled"

(***************************************************************************)
(* C26: the same input analysed twice.                                     *)
(***************************************************************************)
RanTwice == Len(exRuns) = 2

\* C26: an analyzer run twice on the same input and options gives equal
\* output, the order of every list included.
C26_Deterministic == RanTwice => exRuns[1].cross_database = exRuns[2].cross_database

\* Two runs inside one process are equal.
C26_SameProcess ==
  (RanTwice /\ exRuns[1].seed = exRuns[2].seed) =>
    exRuns[1].cross_database = exRuns[2].cross_database

C26_SameProcessWitness ==
  /\ RanTwice /\ exRuns[1].seed = exRuns[2].seed
  /\ Len(exRuns[1].cross_database) = 3

\* Two runs are equal whenever no two references differ in letter case only.
C26_DistinctKeys ==
  (RanTwice /\ \A a, b \in exRefs : lower_key_rank(a) = lower_key_rank(b) => a = b) =>
    exRuns[1].cross_database = exRuns[2].cross_database

(***************************************************************************)
(* C27: concurrent requests.                                               *)
(***************************************************************************)
\* The response request r gets when it is processed alone.
Alone(r) ==
  LET q == rqRequest[r]
  IN standardize_spec_with_evidence(q.spec, q.docs_dir, q.top_k, q.max_snippet_chars)

\* C27: in any interleaving of two requests, the response of each equals
\* the response it gets when processed alone.
C27_NoInterference == \A r \in Requests : rqPc[r] = "done" => rqResponse[r] = Alone(r)

\* Request 1 answered with documents after request 2, on another
\* directory, built its index in between.
C27_Witness ==
  /\ rqPc[1] = "done" /\ rqPc[2] \in {"indexed", "searched"}
  /\ rqRequest[1].docs_dir.name = "docs" /\ rqRequest[2].docs_dir.name = "notes"
  /\ rqResponse[1].documents # << >>

(***************************************************************************)
(* C28: the returned call graph is closed.                                 *)
(***************************************************************************)
EmittedIds == {cgResult.nodes[i].id : i \in 1..Len(cgResult.nodes)}

EmittedInto(id) == Cardinality({k \in 1..Len(cgResult.edges) : cgResult.edges[k].to = id})

EmittedOutOf(id) == Cardinality({k \in 1..Len(cgResult.edges) : cgResult.edges[k].from = id})

\* C28: in every result, truncated or not, both ends of every returned
\* edge are ids of returned nodes, and the topology (in_degree, out_degree,
\* roots, leaves) is the one of the returned nodes and edges.
C28_ClosedGraph ==
  cgPc = "done" =>
    /\ \A k \in 1..Len(cgResult.edges) :
         cgResult.edges[k].from \in EmittedIds /\ cgResult.edges[k].to \in EmittedIds
    /\ DOMAIN cgResult.topology.in_degree = EmittedIds
    /\ DOMAIN cgResult.topology.out_degree = EmittedIds
    /\ \A id \in EmittedIds :
         /\ cgResult.topology.in_degree[id] = EmittedInto(id)
         /\ cgResult.topology.out_degree[id] = EmittedOutOf(id)
    /\ Range(cgResult.topology.roots) = {id \in EmittedIds : EmittedInto(id) = 0}
    /\ Range(cgResult.topology.leaves) = {id \in EmittedIds : EmittedOutOf(id) = 0}

\* A node is cut, a recorded call to or from it is left out, and an edge
\* between kept nodes is returned.
C28_Witness ==
  /\ cgPc = "done"
  /\ \E i \in 1..Len(cgResult.errors) : cgResult.errors[i].id = "NODE_LIMIT_EXCEEDED"
  /\ \E k \in DOMAIN edge_stats : k[1] \notin EmittedIds \/ k[2] \notin EmittedIds
  /\ Len(cgResult.edges) >= 1

(***************************************************************************)
(* C29: the control-flow graph is well formed.                             *)
(***************************************************************************)
IdsOf(nodes) == {nodes[i].id : i \in 1..Len(nodes)}

OfType(nodes, type) == {i \in 1..Len(nodes) : nodes[i].type = type}

\* The position of the node with this id: ids are given in list order,
\* so it is looked for at its own index first.
Position(nodes, id) ==
  IF id + 1 \in 1..Len(nodes) /\ nodes[id + 1].id = id THEN id + 1
  ELSE CHOOSE p \in 1..Len(nodes) : nodes[p].id = id

\* One pass over the edges lo..hi in list order: reached[p] tells whether
\* the node at position p is reached, and each edge whose source is reached
\* marks its target.  The first half is computed before the second.
RECURSIVE Follow(_, _, _, _, _)
Follow(nodes, edges, lo, hi, reached) ==
  IF lo > hi THEN reached
  ELSE IF lo = hi
       THEN IF reached[Position(nodes, edges[lo].from)]
            THEN [reached EXCEPT ![Position(nodes, edges[lo].to)] = TRUE] ELSE reached
  ELSE LET mid == (lo + hi) \div 2
           first == Follow(nodes, edges, lo, mid, reached)
       IN  IF Len(first) = Len(nodes)
           THEN Follow(nodes, edges, mid + 1, hi, first) ELSE first

\* Passes are repeated until nothing is added.
RECURSIVE Closure(_, _, _)
Closure(nodes, edges, reached) ==
  LET more == Follow(nodes, edges, 1, Len(edges), reached)
  IN  IF more = reached THEN reached ELSE Closure(nodes, edges, more)

\* Whether the node at position e is reachable from the one at position s.
Reaches(nodes, edges, s, e) ==
  Closure(nodes, edges, << >> \o [p \in 1..Len(nodes) |-> p = s])[e]

EndsInside(edges, ids) ==
  \A k \in 1..Len(edges) : edges[k].from \in ids /\ edges[k].to \in ids

WellFormed(nodes, edges, ids, starts, ends) ==
  /\ Cardinality(ids) = Len(nodes)
  /\ Cardinality(starts) = 1
  /\ Cardinality(ends) = 1
  /\ EndsInside(edges, ids)
  /\ \A e \in ends, k \in 1..Len(edges) : edges[k].from # nodes[e].id
  /\ \A s \in starts, e \in ends : Reaches(nodes, edges, s, e)

\* C29: in every returned graph, truncated or not, node ids are unique,
\* there is exactly one start node and one end node, both ends of every
\* edge are ids of nodes of the graph, no edge leaves the end node, and the
\* end node is reachable from the start node.
C29_WellFormed ==
  cfResult.done =>
    WellFormed(cfResult.nodes, cfResult.edges, IdsOf(cfResult.nodes),
               OfType(cfResult.nodes, "start"), OfType(cfResult.nodes, "end"))

\* A graph cut at the node limit, whose last kept statement is a TRY and
\* which holds a RETURN.
C29_Witness ==
  /\ cfResult.done
  /\ Len(cfTokens) + 2 > CONTROL_FLOW_NODE_LIMIT
  /\ Len(cfResult.nodes) = CONTROL_FLOW_NODE_LIMIT
  /\ cfResult.nodes[Len(cfResult.nodes) - 1].type = "try"
  /\ OfType(cfResult.nodes, "return") # {}

(***************************************************************************)
(* C30: the cap on dependency items.                                       *)
(***************************************************************************)
RECURSIVE ItemCount(_, _)
ItemCount(dependencies, k) ==
  IF k = 0 THEN 0 ELSE Len(dependencies[ordered_keys[k]]) + ItemCount(dependencies, k - 1)

Found == ItemCount(ddDependencies, Len(ordered_keys))

Returned == ItemCount(ddResult.dependencies, Len(ordered_keys))

Reported == Len(ddResult.errors) = 1

\* C30: with max_items > 0 the returned dependency items, over all
\* categories, number at most max_items, and summary.truncated is true,
\* with one dependency_items_truncated error, exactly when the cap removed
\* at least one item.
C30_CapExact ==
  (ddResult.done /\ ddResult.max_items > 0) =>
    /\ Returned <= ddResult.max_items
    /\ ddResult.truncated <=> Returned < Found
    /\ ddResult.truncated <=> Reported

\* What holds: the cap is kept, a removal is always reported, the error
\* goes with the flag, and the flag is set only when the items found reach
\* the cap.
C30_CapKept ==
  (ddResult.done /\ ddResult.max_items > 0) =>
    /\ Returned <= ddResult.max_items
    /\ Returned < Found => ddResult.truncated
    /\ ddResult.truncated <=> Reported
    /\ ddResult.truncated => Found >= ddResult.max_items

\* The flag is set although nothing was removed.
C30_CapKeptWitness ==
  /\ ddResult.done /\ ddResult.max_items > 0
  /\ ddResult.truncated /\ Returned = Found /\ Found >= 1

====
